---------------------------- MODULE Spec2Model ----------------------------
(***************************************************************************)
(* A model of the real-estate scraper: the fetch client (handle_request),  *)
(* the five source adapters, the synthetic record generator, the scrape    *)
(* button handler of the Streamlit app and the validation / cleaning       *)
(* pipeline of data_processor.py.                                          *)
(*                                                                         *)
(* Cells of a DataFrame are records: Null (None / NaN), Num(n, d) (the     *)
(* exact rational n/d standing for a float), Str(cs) (a Python string as   *)
(* a sequence of one-character strings) and Bool(b).                       *)
(***************************************************************************)
EXTENDS Integers, Sequences, FiniteSets, TLC

VARIABLES
    \* handle_request (scraper.py)
    hr_max,        \* max_retries of the running call
    hr_attempt,    \* the loop variable `attempt` of the next iteration
    hr_log,        \* the GET requests issued so far: <<[status, timeout]>>
    hr_result,     \* "idle" | "running" | "returned" | "raised"
    \* one call of a source adapter (scraper.py)
    ad_site,       \* the adapter called, "none" when none was
    ad_pc,         \* "idle" | "fetch" | "cards" | "done"
    ad_max,        \* max_listings
    ad_cards,      \* listing_cards[:max_listings] of the fetched page
    ad_idx,        \* the card the loop is at
    ad_lists,      \* addresses, cities, prices, ... : the eight lists
    ad_ret,        \* what the adapter returned
    location,      \* the location typed by the user
    \* the scrape button handler (app.py)
    app_pc,        \* "idle" | "rejected" | "loop" | "scraping" | "delivered"
                   \* | "exception" | "no_listings"
    websites,      \* the selected websites, in order
    num_listings,
    use_demo_data,
    app_i,         \* the website the for loop is at
    all_listings,
    provenance,    \* per row of all_listings: "live" | "demo" |
                   \* "adapter_fallback" | "app_fallback"
    properties_df, \* st.session_state.properties_df
    scrape_status, \* st.session_state.scrape_status
    clean_log,     \* the calls of validate_and_clean_data made by the handler:
                   \* <<[at, rows]>>, the loop position and the rows passed
    clock,         \* datetime.now()
    \* one run of validate_and_clean_data, stage by stage (data_processor.py)
    cl_in,         \* the frame passed in
    cl_df,         \* clean_df
    cl_pc,         \* the stage to run next, "done" or "raised"
    cl_pass,       \* 1: first run, 2: the run on the first run's output
    cl_first,      \* the frame the first run returned
    \* one call of calculate_roi_metrics (data_processor.py)
    roi_args,      \* the arguments of the call
    roi_pc,        \* "idle" | "call" | "done"
    roi_out,       \* what the call returned or raised
    \* the Compare boxes and the comparison tab (utils.py, app.py)
    compare_properties, \* st.session_state.compare_properties
    cmp_checked,   \* the properties whose Compare box is checked (widget state)
    cmp_pc,        \* 0: the page waits for the user; k: the script is about
                   \* to draw card k; past the last card: the comparison tab
    cmp_click,     \* Clear Comparison was pressed and starts this run
    cmp_button,    \* the page shows the Clear Comparison button
    cmp_off,       \* the property the user has just unchecked, 0 when none
    cmp_before,    \* compare_properties when the user clicked
    \* st.session_state.geocode_cache and the calls of geocode_address (utils.py)
    geocode_cache, \* address -> coordinates, NoCoords or Absent
    geo_lookups,   \* address -> number of geolocator.geocode calls made for it
    geo_ret        \* the last call: its address and what it returned

hr_vars == <<hr_max, hr_attempt, hr_log, hr_result>>
ad_vars == <<ad_site, ad_pc, ad_max, ad_cards, ad_idx, ad_lists, ad_ret>>
app_vars == <<app_pc, websites, num_listings, use_demo_data, app_i, all_listings,
              provenance, properties_df, scrape_status, clean_log>>
cl_vars == <<cl_in, cl_df, cl_pc, cl_pass, cl_first>>
roi_vars == <<roi_args, roi_pc, roi_out>>
cmp_vars == <<compare_properties, cmp_checked, cmp_pc, cmp_click, cmp_button, cmp_off,
              cmp_before>>
geo_vars == <<geocode_cache, geo_lookups, geo_ret>>
ui_vars == <<cmp_vars, geo_vars>>
vars == <<hr_vars, ad_vars, location, app_vars, clock, cl_vars, roi_vars, ui_vars>>

-----------------------------------------------------------------------------
(* Bounds of the model *)

MaxRetriesBound == 3    \* max_retries ranges over 0..MaxRetriesBound
MaxCards == 2           \* cards on a fetched page
NumStreams == 1         \* sequences of random draws the generator may see
MaxRows == 2            \* rows of a frame passed to the cleaning pipeline

-----------------------------------------------------------------------------
(* Cells and exact arithmetic *)

Null == [k |-> "null"]
Bool(b) == [k |-> "bool", b |-> b]
Str(cs) == [k |-> "str", cs |-> cs]

IsNull(c) == c.k = "null"
IsStr(c) == c.k = "str"
IsNum(c) == c.k = "num"

Abs(i) == IF i < 0 THEN -i ELSE i

RECURSIVE GCD(_, _)
GCD(a, b) == IF b = 0 THEN a ELSE GCD(b, a % b)

\* The rational n/d (d # 0) in lowest terms with a positive denominator.
Num(n, d) ==
    LET Reduced(g, s) == [k |-> "num", n |-> (s * n) \div g, d |-> (s * d) \div g]
    IN Reduced(GCD(Abs(n), Abs(d)), IF d < 0 THEN -1 ELSE 1)

NumI(i) == Num(i, 1)

LCM(a, b) == (a \div GCD(a, b)) * b
RAdd(a, b) ==
    LET Over(l) == Num(a.n * (l \div a.d) + b.n * (l \div b.d), l)
    IN Over(LCM(a.d, b.d))
RSub(a, b) ==
    LET Over(l) == Num(a.n * (l \div a.d) - b.n * (l \div b.d), l)
    IN Over(LCM(a.d, b.d))
\* the common factors are taken out before the products are formed
RMulOver(a, b, g1, g2) ==
    Num((a.n \div g1) * (b.n \div g2), (a.d \div g2) * (b.d \div g1))
RMul(a, b) == RMulOver(a, b, GCD(Abs(a.n), b.d), GCD(Abs(b.n), a.d))
RDiv(a, b) == RMul(a, [k |-> "num", n |-> b.d, d |-> b.n])
RLt(a, b) == a.n * b.d < b.n * a.d
RLe(a, b) == a.n * b.d <= b.n * a.d

\* Comparisons of a cell with NaN are False (pandas / numpy).
Lt(c, b) == IsNum(c) /\ RLt(c, b)
Gt(c, b) == IsNum(c) /\ RLt(b, c)
Ge(c, b) == IsNum(c) /\ RLe(b, c)

\* floor of a rational
RFloor(a) == a.n \div a.d

\* numpy / pandas round(): to the nearest integer, halves to the even one.
RoundHalfEven(a) ==
    \* twice = 2 * fractional part * d
    LET Pick(f, twice) ==
            IF twice < a.d THEN f
            ELSE IF twice > a.d THEN f + 1
            ELSE IF f % 2 = 0 THEN f ELSE f + 1
    IN Pick(RFloor(a), 2 * (a.n - RFloor(a) * a.d))

-----------------------------------------------------------------------------
(* Python strings as sequences of characters *)

LowerLetters == <<"a","b","c","d","e","f","g","h","i","j","k","l","m",
                  "n","o","p","q","r","s","t","u","v","w","x","y","z">>
UpperLetters == <<"A","B","C","D","E","F","G","H","I","J","K","L","M",
                  "N","O","P","Q","R","S","T","U","V","W","X","Y","Z">>
DigitChars == <<"0","1","2","3","4","5","6","7","8","9">>

Range(f) == {f[i] : i \in DOMAIN f}
IndexIn(seq, c) == CHOOSE i \in DOMAIN seq : seq[i] = c

IsLower(c) == c \in Range(LowerLetters)
IsUpper(c) == c \in Range(UpperLetters)
IsLetter(c) == IsLower(c) \/ IsUpper(c)
IsDigit(c) == c \in Range(DigitChars)
IsSpace(c) == c = " "
DigitVal(c) == IndexIn(DigitChars, c) - 1

LowerChar(c) == IF IsUpper(c) THEN LowerLetters[IndexIn(UpperLetters, c)] ELSE c
UpperChar(c) == IF IsLower(c) THEN UpperLetters[IndexIn(LowerLetters, c)] ELSE c

\* str.lower(), str.upper()
PyLower(cs) == [i \in DOMAIN cs |-> LowerChar(cs[i])]
PyUpper(cs) == [i \in DOMAIN cs |-> UpperChar(cs[i])]

\* str.capitalize(): first character upper-cased, the rest lower-cased
PyCapitalize(cs) ==
    [i \in DOMAIN cs |-> IF i = 1 THEN UpperChar(cs[i]) ELSE LowerChar(cs[i])]

\* str.title(): a letter that follows a non-letter is upper-cased, any other
\* letter lower-cased
PyTitle(cs) ==
    [i \in DOMAIN cs |->
        IF i = 1 \/ ~IsLetter(cs[i - 1]) THEN UpperChar(cs[i]) ELSE LowerChar(cs[i])]

\* str.strip()
PyStrip(cs) ==
    LET Between(keep) ==
            IF keep = {} THEN <<>>
            ELSE SubSeq(cs, CHOOSE i \in keep : \A j \in keep : i <= j,
                            CHOOSE i \in keep : \A j \in keep : i >= j)
    IN Between({i \in DOMAIN cs : ~IsSpace(cs[i])})

\* key in text (str.contains with a key that holds no regex metacharacter)
Contains(cs, key) ==
    \E i \in 1..(Len(cs) - Len(key) + 1) : SubSeq(cs, i, i + Len(key) - 1) = key

StartsWith(cs, pre) == Len(cs) >= Len(pre) /\ SubSeq(cs, 1, Len(pre)) = pre
EndsWith(cs, suf) ==
    Len(cs) >= Len(suf) /\ SubSeq(cs, Len(cs) - Len(suf) + 1, Len(cs)) = suf

\* re.sub(r'[^\d.]', '', s)
KeepDigitsDots(cs) == SelectSeq(cs, LAMBDA c : IsDigit(c) \/ c = ".")
\* re.sub(r'[0-9]', '', s)
DropDigits(cs) == SelectSeq(cs, LAMBDA c : ~IsDigit(c))

RECURSIVE DigitsValue(_)
DigitsValue(cs) ==
    IF cs = <<>> THEN 0
    ELSE 10 * DigitsValue(SubSeq(cs, 1, Len(cs) - 1)) + DigitVal(cs[Len(cs)])

RECURSIVE Pow10(_)
Pow10(k) == IF k = 0 THEN 1 ELSE 10 * Pow10(k - 1)

\* float(s) / pd.to_numeric on one string: surrounding blanks are ignored, an
\* optional sign, digits with at most one decimal point and at least one
\* digit.  Null stands for "not a number" (ValueError / NaN).
ParseNumber(raw) ==
    LET Value(body) ==
            LET Split(dot) ==
                    Num(DigitsValue(SubSeq(body, 1, dot - 1) \o SubSeq(body, dot + 1, Len(body))),
                        Pow10(Len(body) - (IF dot > Len(body) THEN Len(body) ELSE dot)))
                At(dots) ==
                    IF /\ \A i \in DOMAIN body : IsDigit(body[i]) \/ body[i] = "."
                       /\ Cardinality(dots) <= 1
                       /\ \E i \in DOMAIN body : IsDigit(body[i])
                      THEN Split(IF dots = {} THEN Len(body) + 1 ELSE CHOOSE i \in dots : TRUE)
                    ELSE Null
            IN At({i \in DOMAIN body : body[i] = "."})
        Negate(mag) == IF IsNull(mag) THEN Null ELSE Num(-mag.n, mag.d)
        Signed(cs) ==
            IF cs # <<>> /\ cs[1] = "-" THEN Negate(Value(Tail(cs))) ELSE Value(cs)
    IN Signed(PyStrip(raw))

-----------------------------------------------------------------------------
(* String constants of the program *)

sHouse == <<"H","o","u","s","e">>
sCondo == <<"C","o","n","d","o">>
sTownhouse == <<"T","o","w","n","h","o","u","s","e">>
sMultiFamily == <<"M","u","l","t","i","-","F","a","m","i","l","y">>
sApartment == <<"A","p","a","r","t","m","e","n","t">>
sLand == <<"L","a","n","d">>
sCommercial == <<"C","o","m","m","e","r","c","i","a","l">>
sUnknown == <<"U","n","k","n","o","w","n">>
sNA == <<"N","/","A">>
sZillow == <<"Z","i","l","l","o","w">>
sRealtorCom == <<"R","e","a","l","t","o","r",".","c","o","m">>
sTrulia == <<"T","r","u","l","i","a">>
property_type_map == <<
    <<<<"s","i","n","g","l","e"," ","f","a","m","i","l","y"," ","h","o","m","e">>, sHouse>>,
    <<<<"s","i","n","g","l","e"," ","f","a","m","i","l","y">>, sHouse>>,
    <<<<"s","i","n","g","l","e","-","f","a","m","i","l","y">>, sHouse>>,
    <<<<"h","o","u","s","e">>, sHouse>>,
    <<<<"h","o","m","e">>, sHouse>>,
    <<<<"r","e","s","i","d","e","n","t","i","a","l">>, sHouse>>,
    <<<<"c","o","n","d","o">>, sCondo>>,
    <<<<"c","o","n","d","o","m","i","n","i","u","m">>, sCondo>>,
    <<<<"a","p","a","r","t","m","e","n","t">>, sCondo>>,
    <<<<"f","l","a","t">>, sCondo>>,
    <<<<"t","o","w","n","h","o","u","s","e">>, sTownhouse>>,
    <<<<"t","o","w","n","h","o","m","e">>, sTownhouse>>,
    <<<<"t","o","w","n"," ","h","o","u","s","e">>, sTownhouse>>,
    <<<<"t","o","w","n"," ","h","o","m","e">>, sTownhouse>>,
    <<<<"m","u","l","t","i"," ","f","a","m","i","l","y">>, sMultiFamily>>,
    <<<<"m","u","l","t","i","-","f","a","m","i","l","y">>, sMultiFamily>>,
    <<<<"d","u","p","l","e","x">>, sMultiFamily>>,
    <<<<"t","r","i","p","l","e","x">>, sMultiFamily>>,
    <<<<"f","o","u","r","p","l","e","x">>, sMultiFamily>>,
    <<<<"l","a","n","d">>, sLand>>,
    <<<<"l","o","t">>, sLand>>,
    <<<<"v","a","c","a","n","t"," ","l","a","n","d">>, sLand>>,
    <<<<"v","a","c","a","n","t"," ","l","o","t">>, sLand>>,
    <<<<"c","o","m","m","e","r","c","i","a","l">>, sCommercial>>,
    <<<<"o","f","f","i","c","e">>, sCommercial>>,
    <<<<"r","e","t","a","i","l">>, sCommercial>>,
    <<<<"i","n","d","u","s","t","r","i","a","l">>, sCommercial>>,
    <<<<"b","u","s","i","n","e","s","s">>, sCommercial>>
>>

sBudget == <<"B","u","d","g","e","t">>
sMidRange == <<"M","i","d","-","R","a","n","g","e">>
sHighEnd == <<"H","i","g","h","-","E","n","d">>
sLuxury == <<"L","u","x","u","r","y">>
sSmall == <<"S","m","a","l","l">>
sMedium == <<"M","e","d","i","u","m">>
sLarge == <<"L","a","r","g","e">>
sVeryLarge == <<"V","e","r","y"," ","L","a","r","g","e">>
sExcellent == <<"E","x","c","e","l","l","e","n","t">>
sGood == <<"G","o","o","d">>
sAverage == <<"A","v","e","r","a","g","e">>
sBelowAverage == <<"B","e","l","o","w"," ","A","v","e","r","a","g","e">>
sPoor == <<"P","o","o","r">>
sFair == <<"F","a","i","r">>

sZillowOrigin == <<"h","t","t","p","s",":","/","/","w","w","w",".","z","i","l","l","o","w",".","c","o","m">>
sRealtorOrigin == <<"h","t","t","p","s",":","/","/","w","w","w",".","r","e","a","l","t","o","r",".","c","o","m">>
sTruliaOrigin == <<"h","t","t","p","s",":","/","/","w","w","w",".","t","r","u","l","i","a",".","c","o","m">>
sRedfinOrigin == <<"h","t","t","p","s",":","/","/","w","w","w",".","r","e","d","f","i","n",".","c","o","m">>
sHomesOrigin == <<"h","t","t","p","s",":","/","/","w","w","w",".","h","o","m","e","s",".","c","o","m">>
sHttp == <<"h","t","t","p">>
sSampleLinkBase == <<"h","t","t","p","s",":","/","/","e","x","a","m","p","l","e",".","c","o","m","/","p","r","o","p","e","r","t","y","/">>
sZillowSample == <<"Z","i","l","l","o","w"," ","(","S","a","m","p","l","e",")">>
sRealtorSample == <<"R","e","a","l","t","o","r"," ","(","S","a","m","p","l","e",")">>
sTruliaSample == <<"T","r","u","l","i","a"," ","(","S","a","m","p","l","e",")">>
sRedfinSample == <<"R","e","d","f","i","n"," ","(","S","a","m","p","l","e",")">>
sHomesSample == <<"H","o","m","e","s",".","c","o","m"," ","(","S","a","m","p","l","e",")">>
sSqft == <<"s","q","f","t">>
sSq == <<"s","q">>
sFt == <<"f","t">>
sCondoLower == <<"c","o","n","d","o">>
sTownhouseLower == <<"t","o","w","n","h","o","u","s","e">>
sSingleFamilyTitle == <<"S","i","n","g","l","e"," ","F","a","m","i","l","y">>
sTownTitle == <<"T","o","w","n">>

street_names == <<
    <<"M","a","i","n"," ","S","t">>,
    <<"O","a","k"," ","A","v","e">>,
    <<"M","a","p","l","e"," ","D","r">>,
    <<"W","a","s","h","i","n","g","t","o","n"," ","B","l","v","d">>,
    <<"C","e","d","a","r"," ","L","n">>,
    <<"P","a","r","k"," ","A","v","e">>,
    <<"L","a","k","e"," ","D","r">>,
    <<"F","o","r","e","s","t"," ","R","d">>,
    <<"S","u","n","s","e","t"," ","B","l","v","d">>,
    <<"R","i","v","e","r"," ","R","d">>>>

valid_states == {
    <<"A","L">>, <<"A","K">>, <<"A","Z">>, <<"A","R">>, <<"C","A">>, <<"C","O">>,
    <<"C","T">>, <<"D","E">>, <<"F","L">>, <<"G","A">>, <<"H","I">>, <<"I","D">>,
    <<"I","L">>, <<"I","N">>, <<"I","A">>, <<"K","S">>, <<"K","Y">>, <<"L","A">>,
    <<"M","E">>, <<"M","D">>, <<"M","A">>, <<"M","I">>, <<"M","N">>, <<"M","S">>,
    <<"M","O">>, <<"M","T">>, <<"N","E">>, <<"N","V">>, <<"N","H">>, <<"N","J">>,
    <<"N","M">>, <<"N","Y">>, <<"N","C">>, <<"N","D">>, <<"O","H">>, <<"O","K">>,
    <<"O","R">>, <<"P","A">>, <<"R","I">>, <<"S","C">>, <<"S","D">>, <<"T","N">>,
    <<"T","X">>, <<"U","T">>, <<"V","T">>, <<"V","A">>, <<"W","A">>, <<"W","V">>,
    <<"W","I">>, <<"W","Y">>, <<"D","C">>, <<"P","R">>}

-----------------------------------------------------------------------------
(* DataFrames: a set of column names, a sequence of rows (each a function  *)
(* from the column names to cells) and the exception that ended the        *)
(* computation, "" when none was raised.                                   *)

NoErr == ""
Frame(cols, rows) == [cols |-> cols, rows |-> rows, err |-> NoErr]
EmptyFrame == Frame({}, <<>>)
Raise(df, e) == [df EXCEPT !.err = e]
Failed(df) == df.err # NoErr
HasCol(df, c) == c \in df.cols
IsEmpty(df) == df.rows = <<>>

Put(row, c, v) == [x \in (DOMAIN row) \cup {c} |-> IF x = c THEN v ELSE row[x]]

\* df[c] = F(row) for every row (the column is created when absent)
MapCol(df, c, F(_)) ==
    [cols |-> df.cols \cup {c},
     rows |-> [i \in DOMAIN df.rows |-> Put(df.rows[i], c, F(df.rows[i]))],
     err |-> df.err]

\* df[c] = G(i) for every row index i
SetColByIndex(df, c, G(_)) ==
    [cols |-> df.cols \cup {c},
     rows |-> [i \in DOMAIN df.rows |-> Put(df.rows[i], c, G(i))],
     err |-> df.err]

DropCols(df, cs) ==
    [cols |-> df.cols \ cs,
     rows |-> [i \in DOMAIN df.rows |-> [x \in (DOMAIN df.rows[i]) \ cs |-> df.rows[i][x]]],
     err |-> df.err]

\* a cell of a row, NaN when the row has no value in that column
Cell(row, c) == IF c \in DOMAIN row THEN row[c] ELSE Null

\* pd.concat([a, b], ignore_index=True): the union of the columns, rows of a
\* then rows of b, NaN where a frame lacks a column
Concat(a, b) ==
    LET Widened(cols) ==
            [cols |-> cols,
             rows |-> [i \in DOMAIN a.rows |-> [x \in cols |-> Cell(a.rows[i], x)]]
                      \o [i \in DOMAIN b.rows |-> [x \in cols |-> Cell(b.rows[i], x)]],
             err |-> NoErr]
    IN Widened(a.cols \cup b.cols)

\* a column holding a Python string has dtype object
DtypeIsObject(df, c) == \E i \in DOMAIN df.rows : IsStr(df.rows[i][c])

-----------------------------------------------------------------------------
(* standardize_property_types: data_processor.py lines 198-268 *)

\* the loop of lines 258-260 assigns in dictionary order, so the last key
\* contained in the lower-cased label decides; an unmatched label is left as
\* it is and only a missing one becomes Unknown (line 263)
StandardType(c) ==
    LET Mapped(hits) ==
            IF hits # {}
              THEN Str(property_type_map[CHOOSE i \in hits : \A j \in hits : j <= i][2])
            ELSE IF IsNull(c) THEN Str(sUnknown)
            ELSE c
        Hits(low) == {i \in DOMAIN property_type_map : Contains(low, property_type_map[i][1])}
    IN Mapped(Hits(IF IsStr(c) THEN PyLower(c.cs) ELSE <<>>))

standardize_property_types(df) ==
    IF ~HasCol(df, "property_type") THEN df
    ELSE MapCol(df, "property_type", LAMBDA r : StandardType(r["property_type"]))

-----------------------------------------------------------------------------
(* validate_and_clean_numeric_fields: data_processor.py lines 270-316 *)

\* pd.to_numeric(errors='coerce') on one cell
ToNumeric(c) ==
    IF IsNum(c) THEN c ELSE IF IsStr(c) THEN ParseNumber(c.cs) ELSE Null

\* df.loc[df[c] < lo, c] = NaN ; df.loc[df[c] > hi, c] = NaN
OutOfRangeToNaN(c, lo, hi) ==
    IF Lt(c, NumI(lo)) \/ Gt(c, NumI(hi)) THEN Null ELSE c

\* re.sub(r'[^\d.]', '', str(x)) on one non-null cell: str() of a number
\* writes its sign and its decimal digits, and the pattern removes the sign
StripNonNumeric(c) ==
    IF IsStr(c) THEN Str(KeepDigitsDots(c.cs))
    ELSE IF IsNum(c) THEN Num(Abs(c.n), c.d)
    ELSE c

BedroomsMin == 0
BedroomsMax == 20
BathroomsMin == 0
BathroomsMax == 15
SquareFeetMin == 100
SquareFeetMax == 50000
PriceMin == 10000
PriceMax == 100000000

CleanBedrooms(df) ==
    IF ~HasCol(df, "bedrooms") THEN df
    ELSE MapCol(df, "bedrooms",
            LAMBDA r : OutOfRangeToNaN(ToNumeric(r["bedrooms"]), BedroomsMin, BedroomsMax))

CleanBathrooms(df) ==
    IF ~HasCol(df, "bathrooms") THEN df
    ELSE MapCol(df, "bathrooms",
            LAMBDA r : OutOfRangeToNaN(ToNumeric(r["bathrooms"]), BathroomsMin, BathroomsMax))

\* lines 302-314 and 382-396: the text extraction runs only on an object column
CleanTextNumber(df, c, lo, hi) ==
    LET Cleaned(obj) ==
            MapCol(df, c,
                LAMBDA r : OutOfRangeToNaN(
                              ToNumeric(IF obj THEN StripNonNumeric(r[c]) ELSE r[c]), lo, hi))
    IN Cleaned(DtypeIsObject(df, c))

CleanSquareFeet(df) ==
    IF ~HasCol(df, "square_feet") THEN df
    ELSE CleanTextNumber(df, "square_feet", SquareFeetMin, SquareFeetMax)

validate_and_clean_numeric_fields(df) ==
    CleanSquareFeet(CleanBathrooms(CleanBedrooms(df)))

-----------------------------------------------------------------------------
(* clean_address_data: data_processor.py lines 318-367 *)

RECURSIVE IntToChars(_)
\* str(i) for i >= 0
IntToChars(i) ==
    IF i < 10 THEN <<DigitChars[i + 1]>>
    ELSE IntToChars(i \div 10) \o <<DigitChars[(i % 10) + 1]>>

\* .str methods give NaN for a cell that is not a string
CleanCity(c) ==
    IF IsStr(c) THEN Str(PyStrip(DropDigits(PyTitle(c.cs)))) ELSE Null

CleanState(c) ==
    IF IsStr(c) /\ PyStrip(PyUpper(c.cs)) \in valid_states
      THEN Str(PyStrip(PyUpper(c.cs)))
    ELSE Null

\* a column of whole numbers is int64, one of whole numbers and NaN float64
DtypeIsFloat(df, c) ==
    /\ ~DtypeIsObject(df, c)
    /\ \E i \in DOMAIN df.rows : IsNull(df.rows[i][c])

\* str(x) of a zip code cell: the text, or the digits of a whole number
\* (with ".0" when it is a float)
ZipText(c, float) ==
    IF IsStr(c) THEN c.cs
    ELSE IntToChars(c.n) \o (IF float THEN <<".", "0">> ELSE <<>>)

\* s[:5]
First5(s) == SubSeq(s, 1, IF Len(s) < 5 THEN Len(s) ELSE 5)

\* re.sub(r'[^0-9]', '', str(x))[:5] if pd.notnull(x) else x
CleanZip(c, float) ==
    IF IsNull(c) THEN c
    ELSE Str(First5(SelectSeq(ZipText(c, float), IsDigit)))

CleanCityColumn(df) ==
    IF HasCol(df, "city") THEN MapCol(df, "city", LAMBDA r : CleanCity(r["city"])) ELSE df

CleanStateColumn(df) ==
    IF HasCol(df, "state") THEN MapCol(df, "state", LAMBDA r : CleanState(r["state"])) ELSE df

CleanZipColumn(df) ==
    IF HasCol(df, "zip_code")
      THEN MapCol(df, "zip_code",
                  LAMBDA r : CleanZip(r["zip_code"], DtypeIsFloat(df, "zip_code")))
    ELSE df

clean_address_data(df) == CleanZipColumn(CleanStateColumn(CleanCityColumn(df)))

-----------------------------------------------------------------------------
(* validate_and_clean_price: data_processor.py lines 369-398 *)

validate_and_clean_price(df) ==
    IF ~HasCol(df, "price") THEN df
    ELSE CleanTextNumber(df, "price", PriceMin, PriceMax)

-----------------------------------------------------------------------------
(* standardize_string_fields: data_processor.py lines 400-444.  No frame   *)
(* of this model carries a title or a description column, so only the      *)
(* source branch (lines 437-442) acts.                                     *)

CleanSource(c) == IF IsStr(c) THEN Str(PyStrip(PyCapitalize(c.cs))) ELSE Null

standardize_string_fields(df) ==
    IF ~HasCol(df, "source") THEN df
    ELSE MapCol(df, "source", LAMBDA r : CleanSource(r["source"]))

-----------------------------------------------------------------------------
(* Column statistics (pandas skips NaN in min, max, median and quantile) *)

Column(df, c) == [i \in DOMAIN df.rows |-> df.rows[i][c]]
NonNull(df, c) == SelectSeq(Column(df, c), IsNum)
AllNull(df, c) == \A i \in DOMAIN df.rows : IsNull(df.rows[i][c])

\* sorted(s): ascending, equal values in their order of appearance
SortNums(s) ==
    LET Rank(i) == Cardinality({j \in DOMAIN s : RLt(s[j], s[i])})
                   + Cardinality({j \in DOMAIN s : j < i /\ s[j] = s[i]}) + 1
    IN [k \in DOMAIN s |-> s[CHOOSE i \in DOMAIN s : Rank(i) = k]]

\* Series.quantile(q): linear interpolation between the two closest ranks
Quantile(vals, q) ==
    IF vals = <<>> THEN Null
    ELSE LET Between(v, lo, frac) ==
                 IF lo + 2 > Len(v) THEN v[lo + 1]
                 ELSE RAdd(v[lo + 1], RMul(frac, RSub(v[lo + 2], v[lo + 1])))
             At(v, pos) == Between(v, RFloor(pos), RSub(pos, NumI(RFloor(pos))))
         IN At(SortNums(vals), RMul(q, NumI(Len(vals) - 1)))

Median(vals) ==
    IF vals = <<>> THEN Null
    ELSE LET Middle(v, m) ==
                 IF m % 2 = 1 THEN v[(m + 1) \div 2]
                 ELSE RDiv(RAdd(v[m \div 2], v[m \div 2 + 1]), NumI(2))
         IN Middle(SortNums(vals), Len(vals))

-----------------------------------------------------------------------------
(* handle_outliers: data_processor.py lines 446-480 *)

OutlierMinRows == 10

\* flags for the values on the fence as well as for those outside it
OutlierFlags_mut(df, c, flag) ==
    MapCol(df, flag,
           LAMBDA r : Bool(/\ IsNum(r[c])
                           /\ \/ ~Gt(r[c], Quantile(NonNull(df, c), Num(5, 100)))
                              \/ ~Lt(r[c], Quantile(NonNull(df, c), Num(95, 100)))))

\* the flags of one column: outside [Q1 - 1.5 IQR, Q3 + 1.5 IQR] with the 5th
\* and 95th percentiles as Q1 and Q3
OutlierFlags(df, c, flag) ==
    LET Outside(lower_bound, upper_bound) ==
            MapCol(df, flag,
                   LAMBDA r : Bool(Lt(r[c], lower_bound) \/ Gt(r[c], upper_bound)))
        Fences(Q1, Q3, IQR) ==
            Outside(RSub(Q1, RMul(Num(3, 2), IQR)), RAdd(Q3, RMul(Num(3, 2), IQR)))
        Flags(Q1, Q3) ==
            IF IsNull(Q1) THEN MapCol(df, flag, LAMBDA r : Bool(FALSE))
            ELSE Fences(Q1, Q3, RSub(Q3, Q1))
    IN Flags(Quantile(NonNull(df, c), Num(5, 100)), Quantile(NonNull(df, c), Num(95, 100)))

PriceOutliers(df) ==
    IF HasCol(df, "price") /\ Len(df.rows) > OutlierMinRows
      THEN OutlierFlags(df, "price", "price_outlier") ELSE df

SqftOutliers(df) ==
    IF HasCol(df, "square_feet") /\ Len(df.rows) > OutlierMinRows
       /\ ~AllNull(df, "square_feet")
      THEN OutlierFlags(df, "square_feet", "sqft_outlier") ELSE df

handle_outliers(df) == SqftOutliers(PriceOutliers(df))

-----------------------------------------------------------------------------
(* add_derived_fields: data_processor.py lines 743-918 *)

\* df.loc[cond, c] = value: rows outside cond keep their cell, NaN when the
\* column is new
SetWhere(df, c, Cond(_), Val(_)) ==
    MapCol(df, c, LAMBDA r : IF Cond(r) THEN Val(r) ELSE Cell(r, c))

\* lines 753-759
HasPriceAndArea(r) ==
    ~IsNull(r["price"]) /\ ~IsNull(r["square_feet"]) /\ Gt(r["square_feet"], NumI(0))

AddPricePerSqft(df) ==
    IF HasCol(df, "price") /\ HasCol(df, "square_feet")
       /\ \E i \in DOMAIN df.rows : HasPriceAndArea(df.rows[i])
      THEN SetWhere(df, "price_per_sqft", HasPriceAndArea,
                    LAMBDA r : RDiv(r["price"], r["square_feet"]))
    ELSE df

\* lines 761-772: np.select over the four conditions, default 'Unknown'
PriceCategory(p) ==
    IF Lt(p, NumI(200000)) THEN Str(sBudget)
    ELSE IF Ge(p, NumI(200000)) /\ Lt(p, NumI(500000)) THEN Str(sMidRange)
    ELSE IF Ge(p, NumI(500000)) /\ Lt(p, NumI(1000000)) THEN Str(sHighEnd)
    ELSE IF Ge(p, NumI(1000000)) THEN Str(sLuxury)
    ELSE Str(sUnknown)

\* lines 774-785
SizeCategory(a) ==
    IF Lt(a, NumI(1000)) THEN Str(sSmall)
    ELSE IF Ge(a, NumI(1000)) /\ Lt(a, NumI(2000)) THEN Str(sMedium)
    ELSE IF Ge(a, NumI(2000)) /\ Lt(a, NumI(3000)) THEN Str(sLarge)
    ELSE IF Ge(a, NumI(3000)) THEN Str(sVeryLarge)
    ELSE Str(sUnknown)

AddPriceCategory(df) ==
    IF HasCol(df, "price")
      THEN MapCol(df, "price_category", LAMBDA r : PriceCategory(r["price"]))
    ELSE df

AddSizeCategory(df) ==
    IF HasCol(df, "square_feet")
      THEN MapCol(df, "size_category", LAMBDA r : SizeCategory(r["square_feet"]))
    ELSE df

AddCategories(df) == AddSizeCategory(AddPriceCategory(df))

\* Series.round(2)
Round2(c) == IF IsNum(c) THEN Num(RoundHalfEven(RMul(c, NumI(100))), 100) ELSE c

\* lines 787-794
HasBedsAndBaths(r) ==
    ~IsNull(r["bedrooms"]) /\ ~IsNull(r["bathrooms"]) /\ Gt(r["bathrooms"], NumI(0))

AddBedBathRatio(df) ==
    IF HasCol(df, "bedrooms") /\ HasCol(df, "bathrooms")
       /\ \E i \in DOMAIN df.rows : HasBedsAndBaths(df.rows[i])
      THEN MapCol(SetWhere(df, "bed_bath_ratio", HasBedsAndBaths,
                           LAMBDA r : RDiv(r["bedrooms"], r["bathrooms"])),
                  "bed_bath_ratio", LAMBDA r : Round2(r["bed_bath_ratio"]))
    ELSE df

\* lines 796-844
value_columns == <<"price_per_sqft", "bedrooms", "bathrooms", "square_feet">>

ValueWeight(c) ==
    CASE c = "price_per_sqft" -> Num(40, 100)
      [] c = "square_feet" -> Num(30, 100)
      [] c = "bedrooms" -> Num(15, 100)
      [] c = "bathrooms" -> Num(15, 100)

MinValueColumns == 3

\* the normalised value of one cell of column c (lines 802-820); the
\* constant 50 fills every row, NaN rows included
Normalised(df, c, cell) ==
    LET Share(min_val, max_val) ==
            RMul(RDiv(RSub(cell, min_val), RSub(max_val, min_val)), NumI(100))
        Scaled(min_val, max_val) ==
            IF ~RLt(min_val, max_val) THEN NumI(50)
            ELSE IF IsNull(cell) THEN Null
            ELSE IF c = "price_per_sqft" THEN RSub(NumI(100), Share(min_val, max_val))
            ELSE Share(min_val, max_val)
        Spread(v) == Scaled(v[1], v[Len(v)])
    IN Spread(SortNums(NonNull(df, c)))

AddIfNum(x, rest) == IF IsNull(x) \/ IsNull(rest) THEN Null ELSE RAdd(x, rest)

MulIfNum(nv, w) == IF IsNull(nv) THEN Null ELSE RMul(nv, w)

RECURSIVE SumCells(_)
\* a sum of floats is NaN as soon as one term is
SumCells(s) ==
    IF s = <<>> THEN NumI(0) ELSE AddIfNum(Head(s), SumCells(Tail(s)))

\* the sum left as it is, without .round()
RoundCell_mut(c) == c

RoundCell(c) == IF IsNum(c) THEN NumI(RoundHalfEven(c)) ELSE c

AddValueScore(df) ==
    LET Score(norm_cols, sum_weights) ==
            MapCol(df, "value_score",
                 LAMBDA r : RoundCell(SumCells(
                     [i \in DOMAIN norm_cols |->
                        MulIfNum(Normalised(df, norm_cols[i], r[norm_cols[i]]),
                                 RDiv(ValueWeight(norm_cols[i]), sum_weights))])))
        Weighted(norm_cols) ==
            Score(norm_cols, SumCells([i \in DOMAIN norm_cols |-> ValueWeight(norm_cols[i])]))
        Checked(present, norm_cols) ==
            IF Len(present) >= MinValueColumns /\ norm_cols # <<>>
              THEN Weighted(norm_cols)
            ELSE df
        Present(present) == Checked(present, SelectSeq(present, LAMBDA c : ~AllNull(df, c)))
    IN Present(SelectSeq(value_columns, LAMBDA c : c \in df.cols))

\* the highest price per area of the city instead of the median
CityMedian_mut(df, city) ==
    IF IsNull(city) THEN Null
    ELSE (LET Top(v) == IF v = <<>> THEN Null ELSE v[Len(v)]
          IN Top(SortNums(SelectSeq(
                 [i \in DOMAIN df.rows |->
                     IF df.rows[i]["city"] = city THEN df.rows[i]["price_per_sqft"] ELSE Null],
                 IsNum))))

\* lines 846-873
CityMedian(df, city) ==
    IF IsNull(city) THEN Null
    ELSE Median(SelectSeq(
            [i \in DOMAIN df.rows |->
                IF df.rows[i]["city"] = city THEN df.rows[i]["price_per_sqft"] ELSE Null],
            IsNum))

\* the rows at which a city occurs for the first time: groupby('city') has one
\* group per distinct city and none for NaN
FirstOfCity(df) ==
    SelectSeq([i \in DOMAIN df.rows |-> i],
              LAMBDA i : /\ ~IsNull(df.rows[i]["city"])
                         /\ \A j \in 1..(i - 1) : df.rows[j]["city"] # df.rows[i]["city"])

\* line 849-850: one row per group, columns city and median_price_per_sqft
city_avg_price_sqft(df) ==
    [k \in DOMAIN FirstOfCity(df) |->
        [city |-> df.rows[FirstOfCity(df)[k]]["city"],
         median_price_per_sqft |-> CityMedian(df, df.rows[FirstOfCity(df)[k]]["city"])]]

\* the rows a left join makes of one row of the left frame: one per matching
\* row of the right frame, one with NaN when none matches
JoinedRows(row, right, key, col) ==
    IF \A m \in DOMAIN right : right[m][key] # row[key]
      THEN <<Put(row, col, Null)>>
    ELSE [m \in DOMAIN SelectSeq(right, LAMBDA g : g[key] = row[key]) |->
             Put(row, col, SelectSeq(right, LAMBDA g : g[key] = row[key])[m][col])]

RECURSIVE JoinAll(_, _, _, _)
JoinAll(rows, right, key, col) ==
    IF rows = <<>> THEN <<>>
    ELSE JoinedRows(Head(rows), right, key, col) \o JoinAll(Tail(rows), right, key, col)

\* df.merge(right, on=key, how='left'): the rows of df in their order, each
\* once per match
MergeLeft(df, right, key, col) ==
    [cols |-> df.cols \cup {col}, rows |-> JoinAll(df.rows, right, key, col), err |-> df.err]

InvestmentRating(pvm) ==
    IF Gt(pvm, NumI(120)) THEN Str(sExcellent)
    ELSE IF Gt(pvm, NumI(105)) /\ ~Gt(pvm, NumI(120)) /\ IsNum(pvm) THEN Str(sGood)
    ELSE IF Ge(pvm, NumI(95)) /\ ~Gt(pvm, NumI(105)) THEN Str(sAverage)
    ELSE IF Ge(pvm, NumI(80)) /\ Lt(pvm, NumI(95)) THEN Str(sBelowAverage)
    ELSE IF Lt(pvm, NumI(80)) THEN Str(sPoor)
    ELSE Str(sUnknown)

HasMedian(r) ==
    ~IsNull(r["price_per_sqft"]) /\ ~IsNull(r["median_price_per_sqft"])
    /\ Gt(r["median_price_per_sqft"], NumI(0))

RatePriceVsMedian(df) ==
    IF \E i \in DOMAIN df.rows : HasMedian(df.rows[i])
      THEN MapCol(MapCol(SetWhere(df, "price_vs_median", HasMedian,
                                  LAMBDA r : RMul(RDiv(r["median_price_per_sqft"],
                                                       r["price_per_sqft"]), NumI(100))),
                         "price_vs_median", LAMBDA r : RoundCell(r["price_vs_median"])),
                  "investment_rating", LAMBDA r : InvestmentRating(r["price_vs_median"]))
    ELSE df

AddInvestmentRating(df) ==
    IF ~(HasCol(df, "price") /\ HasCol(df, "square_feet") /\ HasCol(df, "city")) THEN df
    \* line 849: df.groupby('city')['price_per_sqft'] needs the column
    ELSE IF ~HasCol(df, "price_per_sqft") THEN Raise(df, "KeyError: price_per_sqft")
    \* line 853: merging a frame that already has median_price_per_sqft yields
    \* median_price_per_sqft_x and _y, so line 856 finds no such column
    ELSE IF HasCol(df, "median_price_per_sqft")
      THEN Raise(df, "KeyError: median_price_per_sqft")
    ELSE RatePriceVsMedian(
             MergeLeft(df, city_avg_price_sqft(df), "city", "median_price_per_sqft"))

\* lines 875-912
quality_columns == <<"price", "bedrooms", "bathrooms", "square_feet",
                     "address", "city", "property_type", "state">>

QualityWeight(c) ==
    CASE c = "price" -> Num(20, 100)
      [] c \in {"bedrooms", "bathrooms", "square_feet"} -> Num(15, 100)
      [] c \in {"address", "city", "property_type"} -> Num(10, 100)
      [] c = "state" -> Num(5, 100)

QualityCategory(s) ==
    IF Ge(s, NumI(90)) THEN Str(sExcellent)
    ELSE IF Ge(s, NumI(70)) /\ Lt(s, NumI(90)) THEN Str(sGood)
    ELSE IF Ge(s, NumI(50)) /\ Lt(s, NumI(70)) THEN Str(sFair)
    ELSE IF Lt(s, NumI(50)) THEN Str(sPoor)
    ELSE Str(sUnknown)

AddDataQuality(df) ==
    LET Scored(available, total_weight) ==
            MapCol(MapCol(df, "data_quality_score",
                        LAMBDA r : RoundCell(SumCells(
                            [i \in DOMAIN available |->
                                IF IsNull(r[available[i]]) THEN NumI(0)
                                ELSE RMul(NumI(100),
                                          RDiv(QualityWeight(available[i]), total_weight))]))),
                   "data_quality_category",
                   LAMBDA r : QualityCategory(r["data_quality_score"]))
        Available(available) ==
            IF available = <<>> THEN df
            ELSE Scored(available,
                        SumCells([i \in DOMAIN available |-> QualityWeight(available[i])]))
    IN Available(SelectSeq(quality_columns, LAMBDA c : c \in df.cols))

\* lines 914-916: the date of `now`
TicksPerDay == 2
DateOf(now) == NumI(now \div TicksPerDay)

AddScrapeDate(df, now) ==
    IF HasCol(df, "scrape_date") THEN df
    ELSE MapCol(df, "scrape_date", LAMBDA r : DateOf(now))

DerivedThenQuality(d, now) ==
    IF Failed(d) THEN d ELSE AddScrapeDate(AddDataQuality(d), now)

add_derived_fields(df, now) ==
    DerivedThenQuality(AddInvestmentRating(AddValueScore(AddBedBathRatio(
                           AddCategories(AddPricePerSqft(df))))), now)

-----------------------------------------------------------------------------
(* validate_and_clean_data: data_processor.py lines 165-196 *)

CleaningStages(df) ==
    handle_outliers(standardize_string_fields(validate_and_clean_price(
        clean_address_data(validate_and_clean_numeric_fields(
            standardize_property_types(df))))))

StampValidated(d, now) ==
    IF Failed(d) THEN d ELSE MapCol(d, "validated_at", LAMBDA r : NumI(now))

validate_and_clean_data(df, now) ==
    IF IsEmpty(df) THEN df
    ELSE StampValidated(add_derived_fields(CleaningStages(df), now), now)

-----------------------------------------------------------------------------
(* More string helpers used by the scraper *)

\* s.split(',') : the pieces between the commas
SplitComma(cs) ==
    LET Parts(commas) ==
            LET cut(k) == IF k = 0 THEN 0
                          ELSE IF k > Cardinality(commas) THEN Len(cs) + 1
                          ELSE CHOOSE i \in commas : Cardinality({j \in commas : j <= i}) = k
            IN [k \in 1..(Cardinality(commas) + 1) |-> SubSeq(cs, cut(k - 1) + 1, cut(k) - 1)]
    IN Parts({i \in DOMAIN cs : cs[i] = ","})

\* s.replace(',', '')
DropCommas(cs) == SelectSeq(cs, LAMBDA c : c # ",")

\* the largest j with cs[i..j] inside the character class, i - 1 when cs[i] is not
RunEnd(cs, i, InClass(_)) ==
    CHOOSE j \in (i - 1)..Len(cs) :
        /\ \A k \in i..j : InClass(cs[k])
        /\ (j = Len(cs) \/ ~InClass(cs[j + 1]))

SkipSpaces(cs, i) == RunEnd(cs, i, IsSpace) + 1

\* re.search(r'\d+', text): the first run of digits (extract_number, line 133)
FirstDigitRun(cs) ==
    LET From(i) == SubSeq(cs, i, RunEnd(cs, i, IsDigit))
        First(starts) ==
            IF starts = {} THEN <<>>
            ELSE From(CHOOSE x \in starts : \A y \in starts : x <= y)
    IN First({i \in DOMAIN cs : IsDigit(cs[i])})

-----------------------------------------------------------------------------
(* generate_sample_data: scraper.py lines 524-603 *)

prop_types == <<sHouse, sCondo, sTownhouse, sMultiFamily, sLand>>

AdapterColumns == {"address", "city", "price", "bedrooms", "bathrooms",
                   "square_feet", "property_type", "link"}

\* city = location.split(',')[0].strip() if ',' in location else location
SampleCity(loc) ==
    IF \E i \in DOMAIN loc : loc[i] = ","
      THEN PyStrip(SplitComma(loc)[1])
    ELSE loc

\* One record from one sequence of random draws: house_num, street and
\* property type by index, price, bedroom, sqft as drawn, and half_baths =
\* round(random.uniform(1, 4.5) * 2), so that bathroom = half_baths / 2.
SampleRow(loc, source, i, draw) ==
    [address |-> Str(IntToChars(draw.house_num) \o <<" ">> \o street_names[draw.street]
                     \o <<",", " ">> \o SampleCity(loc)),
     city |-> Str(SampleCity(loc)),
     price |-> NumI(draw.price),
     bedrooms |-> NumI(draw.bedroom),
     bathrooms |-> Num(draw.half_baths, 2),
     square_feet |-> NumI(draw.sqft),
     property_type |-> Str(prop_types[draw.ptype]),
     link |-> Str(sSampleLinkBase \o PyLower(source) \o <<"/">> \o IntToChars(i - 1))]

generate_sample_data(loc, n, source, draws) ==
    Frame(AdapterColumns,
          [i \in 1..n |-> SampleRow(loc, source, i, draws[i])])

-----------------------------------------------------------------------------
(* handle_request: scraper.py lines 24-118 *)

\* What one requests.get can produce: a response with a status code, or a
\* requests.exceptions.RequestException (timeout, connection error): NetErr.
NetErr == 0
StatusCodes == {200, 204, 304, 403, 404, 500}
Outcomes == StatusCodes \cup {NetErr}

GetTimeout == 10

\* response.status_code == 200 (line 99)
IsSuccess(s) == s = 200

\* the status the code treats as "blocked" (line 103)
IsForbidden_mut(s) == FALSE
IsForbidden(s) == s = 403

\* response.raise_for_status() raises HTTPError for 4xx and 5xx only (line 107)
RaisesForStatus(s) == s >= 400 /\ s < 600

\* the except clause catches requests.exceptions.RequestException only (line 109)
IsRequestException(s) == s = NetErr \/ (~IsSuccess(s) /\ ~IsForbidden(s) /\ RaisesForStatus(s))

\* One iteration of the for loop (lines 79-115), or, when the loop is
\* exhausted, the final raise (line 118).
HR_Step(o) ==
    /\ hr_result = "running"
    /\ hr_attempt < hr_max
    /\ hr_log' = Append(hr_log, [status |-> o, timeout |-> GetTimeout])
    /\ IF o # NetErr /\ IsSuccess(o)
         THEN hr_result' = "returned" /\ hr_attempt' = hr_attempt
       ELSE IF o # NetErr /\ IsForbidden(o)
         THEN hr_result' = "raised" /\ hr_attempt' = hr_attempt
       ELSE IF IsRequestException(o) /\ hr_attempt = hr_max - 1
         THEN hr_result' = "raised" /\ hr_attempt' = hr_attempt
       ELSE hr_result' = "running" /\ hr_attempt' = hr_attempt + 1
    /\ UNCHANGED <<hr_max, ad_vars, location, app_vars, clock, cl_vars, roi_vars, ui_vars>>

HR_Exhausted ==
    /\ hr_result = "running"
    /\ hr_attempt >= hr_max
    /\ hr_result' = "raised"
    /\ UNCHANGED <<hr_max, hr_attempt, hr_log, ad_vars, location, app_vars, clock, cl_vars, roi_vars, ui_vars>>

HandleRequest == (\E o \in Outcomes : HR_Step(o)) \/ HR_Exhausted

-----------------------------------------------------------------------------
(* The source adapters: scraper.py scrape_zillow (143-339), scrape_realtor *)
(* (341-522), scrape_trulia (605-797), scrape_redfin (799-1018) and        *)
(* scrape_homes_com (1020-1235).                                           *)
(*                                                                         *)
(* A card of the fetched page is the text of the elements the selectors    *)
(* find in it (Null when the element is absent): address, locality,        *)
(* price_text, sqft_text (the text the area is read from), ptype (the      *)
(* type label, for Trulia the details text), href; beds and baths are the  *)
(* numbers the bed / bath patterns capture.                                *)

Sites == {"zillow", "realtor", "trulia", "redfin", "homes"}

Origin(site) ==
    CASE site = "zillow" -> sZillowOrigin
      [] site = "realtor" -> sRealtorOrigin
      [] site = "trulia" -> sTruliaOrigin
      [] site = "redfin" -> sRedfinOrigin
      [] site = "homes" -> sHomesOrigin

SampleLabel(site) ==
    CASE site = "zillow" -> sZillowSample
      [] site = "realtor" -> sRealtorSample
      [] site = "trulia" -> sTruliaSample
      [] site = "redfin" -> sRedfinSample
      [] site = "homes" -> sHomesSample

\* the list names in the order each adapter appends to them
AppendOrder(site) ==
    IF site \in {"redfin", "homes"}
      THEN <<"price", "address", "city", "bedrooms", "bathrooms",
             "square_feet", "property_type", "link">>
    ELSE <<"address", "city", "price", "bedrooms", "bathrooms",
           "square_feet", "property_type", "link">>

TextOr(c, default) == IF IsNull(c) THEN default ELSE PyStrip(c.cs)

\* clean_price (lines 120-131)
clean_price(price_str) ==
    IF price_str = <<>> THEN Null ELSE ParseNumber(KeepDigitsDots(price_str))

\* extract_number (lines 133-141)
extract_number(text) ==
    IF text = <<>> \/ FirstDigitRun(text) = <<>> THEN Null
    ELSE NumI(DigitsValue(FirstDigitRun(text)))

CardAddress(site, card) == TextOr(card.address, sNA)

CardCity(site, card) ==
    LET Of(parts) ==
            IF site = "homes" THEN TextOr(card.locality, sNA)
            ELSE IF Len(parts) < 2 THEN sNA
            ELSE IF site = "zillow" THEN PyStrip(parts[1])
            ELSE PyStrip(parts[2])
    IN Of(SplitComma(CardAddress(site, card)))

CardPrice(site, card) ==
    IF site \in {"redfin", "homes"}
      THEN IF IsNull(card.price_text) THEN Null ELSE clean_price(card.price_text.cs)
    ELSE clean_price(TextOr(card.price_text, sNA))

IsDigitOrComma(c) == IsDigit(c) \/ c = ","

\* the group of ([\d,]+)\s*sqft (zillow, line 285) or (\d+[,\d]*)\s*sq ?ft
\* (redfin, line 968) at its leftmost match, <<>> when the text has none
SqftUnitAt(site, text, i) ==
    IF site = "zillow" THEN StartsWith(SubSeq(text, SkipSpaces(text, i), Len(text)), sSqft)
    ELSE \/ StartsWith(SubSeq(text, SkipSpaces(text, i), Len(text)), sSq \o sFt)
         \/ StartsWith(SubSeq(text, SkipSpaces(text, i), Len(text)), sSq \o <<" ">> \o sFt)

SqftGroup(site, text) ==
    LET From(i) == SubSeq(text, i, RunEnd(text, i, IsDigitOrComma))
        First(starts) ==
            IF starts = {} THEN <<>>
            ELSE From(CHOOSE x \in starts : \A y \in starts : x <= y)
    IN First({i \in DOMAIN text :
                /\ IF site = "zillow" THEN IsDigitOrComma(text[i]) ELSE IsDigit(text[i])
                /\ SqftUnitAt(site, text, RunEnd(text, i, IsDigitOrComma) + 1)})

\* Whether reading the area raises: float() of the text left by
\* re.sub(r'[^\d.]', '', sqft_text) (realtor line 474, trulia line 746)
SqftRaises(site, card) ==
    /\ site \in {"realtor", "trulia"}
    /\ ~IsNull(card.sqft_text)
    /\ PyStrip(card.sqft_text.cs) # sNA
    /\ KeepDigitsDots(card.sqft_text.cs) # <<>>
    /\ IsNull(ParseNumber(KeepDigitsDots(card.sqft_text.cs)))

GroupValue(g) == IF g = <<>> THEN Null ELSE NumI(DigitsValue(g))

CardSqft(site, card) ==
    IF IsNull(card.sqft_text) THEN Null
    ELSE IF site \in {"realtor", "trulia"}
      THEN IF PyStrip(card.sqft_text.cs) = sNA \/ KeepDigitsDots(card.sqft_text.cs) = <<>> THEN Null
           ELSE ParseNumber(KeepDigitsDots(card.sqft_text.cs))
    ELSE IF site = "homes" THEN extract_number(card.sqft_text.cs)
    ELSE GroupValue(DropCommas(SqftGroup(site,
             IF site = "redfin" THEN PyLower(card.sqft_text.cs) ELSE card.sqft_text.cs)))

HomesType(title) ==
    IF Contains(title, sSingleFamilyTitle) THEN sHouse
    ELSE IF Contains(title, sCondo) \/ Contains(title, sTownTitle) THEN sCondo
    ELSE title

CardType(site, card) ==
    IF site = "trulia"
      THEN IF Contains(PyLower(TextOr(card.ptype, <<>>)), sCondoLower) THEN sCondo
           ELSE IF Contains(PyLower(TextOr(card.ptype, <<>>)), sTownhouseLower)
             THEN sTownhouse
           ELSE sHouse
    ELSE IF site = "redfin" THEN PyTitle(TextOr(card.ptype, sHouse))
    ELSE IF site = "homes" THEN HomesType(PyTitle(TextOr(card.ptype, sHouse)))
    ELSE TextOr(card.ptype, sHouse)

\* an absolute href is kept by zillow, realtor and trulia (lines 299-302);
\* redfin and homes prefix every href (lines 988, 1200)
CardLink(site, card) ==
    IF IsNull(card.href) THEN sNA
    ELSE IF site \in {"zillow", "realtor", "trulia"} /\ StartsWith(card.href.cs, sHttp)
      THEN card.href.cs
    ELSE Origin(site) \o card.href.cs

CardField(site, card, col) ==
    CASE col = "address" -> Str(CardAddress(site, card))
      [] col = "city" -> Str(CardCity(site, card))
      [] col = "price" -> CardPrice(site, card)
      [] col = "bedrooms" -> card.beds
      [] col = "bathrooms" -> card.baths
      [] col = "square_feet" -> CardSqft(site, card)
      [] col = "property_type" -> Str(CardType(site, card))
      [] col = "link" -> Str(CardLink(site, card))

\* how many of the eight lists one card reaches before an exception ends
\* its iteration: all eight when nothing raises
AppendsBeforeRaise(site, card) == IF SqftRaises(site, card) THEN 5 ELSE 8

EmptyLists == [col \in AdapterColumns |-> <<>>]

\* one iteration of the card loop: the appends the card reaches
AppendCard(site, lists, idx, card) ==
    [col \in AdapterColumns |->
        IF col \in {AppendOrder(site)[k] : k \in 1..AppendsBeforeRaise(site, card)}
          THEN Append(lists[col], [card |-> idx, v |-> CardField(site, card, col)])
        ELSE lists[col]]

\* pd.DataFrame(data) raises ValueError unless all lists have one length
SameLength(lists) ==
    \A c1, c2 \in AdapterColumns : Len(lists[c1]) = Len(lists[c2])

FrameOfLists(lists) ==
    Frame(AdapterColumns,
          [i \in 1..Len(lists["address"]) |-> [col \in AdapterColumns |-> lists[col][i].v]])

\* the cards each row of the frame was read from
OriginsOfLists(lists) ==
    [i \in 1..Len(lists["address"]) |-> {lists[col][i].card : col \in AdapterColumns}]

-----------------------------------------------------------------------------
(* Inputs of the model *)

sSeattleWA == <<"S","e","a","t","t","l","e",","," ","W","A">>
sAustin == <<"A","u","s","t","i","n">>
Locations == {sSeattleWA, sAustin}

\* The draws of one generator call: the limits of every random range
\* (randint(100, 9999), randint(100000, 1500000), randint(1, 6),
\* round(uniform(1, 4.5) * 2) in 2..9, randint(800, 5000)) and every index of
\* street_names and prop_types occur.
DrawPool == <<
    [house_num |-> 100, street |-> 1, price |-> 100000, bedroom |-> 1,
     half_baths |-> 2, sqft |-> 800, ptype |-> 1],
    [house_num |-> 9999, street |-> 10, price |-> 1500000, bedroom |-> 6,
     half_baths |-> 9, sqft |-> 5000, ptype |-> 5],
    [house_num |-> 1234, street |-> 2, price |-> 640000, bedroom |-> 3,
     half_baths |-> 5, sqft |-> 1600, ptype |-> 2],
    [house_num |-> 770, street |-> 5, price |-> 199999, bedroom |-> 4,
     half_baths |-> 4, sqft |-> 999, ptype |-> 3],
    [house_num |-> 4020, street |-> 7, price |-> 1000000, bedroom |-> 2,
     half_baths |-> 3, sqft |-> 3000, ptype |-> 4] >>

DrawStream(s, n) == [i \in 1..n |-> DrawPool[((s + i - 2) % Len(DrawPool)) + 1]]
Streams == 1..NumStreams

GoodCard ==
    [address |-> Str(<<"1","2"," ","O","a","k"," ","A","v","e",","," ","S","e","a","t","t","l","e",","," ","W","A">>),
     locality |-> Str(<<"S","e","a","t","t","l","e">>),
     price_text |-> Str(<<"$","4","5","0",",","0","0","0">>),
     beds |-> NumI(3), baths |-> NumI(2),
     sqft_text |-> Str(<<"1",",","8","0","0"," ","s","q","f","t">>),
     ptype |-> Str(<<"S","i","n","g","l","e"," ","F","a","m","i","l","y"," ","H","o","m","e">>),
     href |-> Str(<<"/","h","o","m","e","/","1">>)]

\* a card in which no selector finds its element
BareCard ==
    [address |-> Null, locality |-> Null, price_text |-> Null, beds |-> Null,
     baths |-> Null, sqft_text |-> Null, ptype |-> Null, href |-> Null]

\* a card whose area reads "2,100 sq. ft." and whose link is absolute
DottedCard ==
    [address |-> Str(<<"9"," ","E","l","m"," ","S","t",","," ","T","a","c","o","m","a",","," ","W","A">>),
     locality |-> Str(<<"T","a","c","o","m","a">>),
     price_text |-> Str(<<"$","7","9","9",",","0","0","0">>),
     beds |-> NumI(4), baths |-> Num(5, 2),
     sqft_text |-> Str(<<"2",",","1","0","0"," ","s","q","."," ","f","t",".">>),
     ptype |-> Str(<<"C","o","n","d","o">>),
     href |-> Str(<<"h","t","t","p","s",":","/","/","x",".","i","o","/","2">>)]

CardPool == {GoodCard, BareCard, DottedCard}

SeqsUpTo(S, n) == UNION {[1..k -> S] : k \in 0..n}
Pages == SeqsUpTo(CardPool, MaxCards)

-----------------------------------------------------------------------------
(* One adapter call, step by step *)

NoReturn == [kind |-> "none", df |-> EmptyFrame, origins |-> <<>>]

DefaultMaxRetries == 2
RedfinTimeout == 15

\* the call begins: handle_request(url) with the default max_retries, or for
\* redfin the session.get of line 898
AdapterBegins(site, max_listings) ==
    /\ ad_site' = site
    /\ ad_pc' = "fetch"
    /\ ad_max' = max_listings
    /\ ad_cards' = <<>>
    /\ ad_idx' = 1
    /\ ad_lists' = EmptyLists
    /\ ad_ret' = NoReturn
    /\ hr_max' = DefaultMaxRetries
    /\ hr_attempt' = 0
    /\ hr_log' = <<>>
    /\ hr_result' = IF site = "redfin" THEN "idle" ELSE "running"

\* soup.select(...)[:max_listings] on the page that came back
AdapterPage(page) ==
    /\ ad_cards' = SubSeq(page, 1, IF Len(page) < ad_max THEN Len(page) ELSE ad_max)
    /\ ad_pc' = "cards"

\* the except block of the adapter (e.g. lines 329-339): sample data
AdapterExcept(s) ==
    /\ ad_ret' = [kind |-> "sample",
                  df |-> generate_sample_data(location, ad_max, SampleLabel(ad_site),
                                              DrawStream(s, ad_max)),
                  origins |-> <<>>]
    /\ ad_pc' = "done"

\* handle_request returned: parse the page
AD_Parse(page) ==
    /\ ad_pc = "fetch" /\ ad_site # "redfin" /\ hr_result = "returned"
    /\ AdapterPage(page)
    /\ UNCHANGED <<hr_vars, ad_site, ad_max, ad_idx, ad_lists, ad_ret,
                   location, app_vars, clock, cl_vars, roi_vars, ui_vars>>

\* handle_request raised
AD_FetchFailed(s) ==
    /\ ad_pc = "fetch" /\ ad_site # "redfin" /\ hr_result = "raised"
    /\ AdapterExcept(s)
    /\ UNCHANGED <<hr_vars, ad_site, ad_max, ad_cards, ad_idx, ad_lists,
                   location, app_vars, clock, cl_vars, roi_vars, ui_vars>>

\* scrape_redfin, line 898: one GET, whose status is not looked at
AD_RedfinGet(o, page, s) ==
    /\ ad_pc = "fetch" /\ ad_site = "redfin" /\ hr_log = <<>>
    /\ hr_log' = <<[status |-> o, timeout |-> RedfinTimeout]>>
    /\ IF o = NetErr
         THEN AdapterExcept(s) /\ UNCHANGED ad_cards
         ELSE AdapterPage(page) /\ UNCHANGED ad_ret
    /\ UNCHANGED <<hr_max, hr_attempt, hr_result, ad_site, ad_max, ad_idx, ad_lists,
                   location, app_vars, clock, cl_vars, roi_vars, ui_vars>>

\* one iteration of the card loop
AD_Card ==
    /\ ad_pc = "cards" /\ ad_idx <= Len(ad_cards)
    /\ ad_lists' = AppendCard(ad_site, ad_lists, ad_idx, ad_cards[ad_idx])
    /\ ad_idx' = ad_idx + 1
    /\ UNCHANGED <<hr_vars, ad_site, ad_pc, ad_max, ad_cards, ad_ret,
                   location, app_vars, clock, cl_vars, roi_vars, ui_vars>>

\* scrape_homes_com line 1225 calls calculate_data_quality, which no module
\* defines: NameError whenever the frame has a row
HomesQualityRaises(site, df) == site = "homes" /\ ~IsEmpty(df)

FrameRaises(site, lists) ==
    ~SameLength(lists) \/ HomesQualityRaises(site, FrameOfLists(lists))

\* after the loop: pd.DataFrame(data) and return df
AD_Return ==
    /\ ad_pc = "cards" /\ ad_idx > Len(ad_cards)
    /\ ~FrameRaises(ad_site, ad_lists)
    /\ ad_ret' = [kind |-> "parsed", df |-> FrameOfLists(ad_lists),
                  origins |-> OriginsOfLists(ad_lists)]
    /\ ad_pc' = "done"
    /\ UNCHANGED <<hr_vars, ad_site, ad_max, ad_cards, ad_idx, ad_lists,
                   location, app_vars, clock, cl_vars, roi_vars, ui_vars>>

\* after the loop: building the frame raised, the except block answers
AD_FrameFailed(s) ==
    /\ ad_pc = "cards" /\ ad_idx > Len(ad_cards)
    /\ FrameRaises(ad_site, ad_lists)
    /\ AdapterExcept(s)
    /\ UNCHANGED <<hr_vars, ad_site, ad_max, ad_cards, ad_idx, ad_lists,
                   location, app_vars, clock, cl_vars, roi_vars, ui_vars>>

AD_Fetch == ad_pc = "fetch" /\ HandleRequest

AdapterCommon ==
    \/ AD_Fetch
    \/ \E page \in Pages : AD_Parse(page)
    \/ \E s \in Streams : AD_FetchFailed(s)
    \/ AD_Card
    \/ AD_Return
    \/ \E s \in Streams : AD_FrameFailed(s)

HRIdle ==
    /\ hr_max = 0 /\ hr_attempt = 0 /\ hr_log = <<>> /\ hr_result = "idle"

ADIdle ==
    /\ ad_site = "none" /\ ad_pc = "idle" /\ ad_max = 0 /\ ad_cards = <<>>
    /\ ad_idx = 1 /\ ad_lists = EmptyLists /\ ad_ret = NoReturn

AppIdle ==
    /\ app_pc = "idle" /\ websites = <<>> /\ num_listings = 0
    /\ use_demo_data = FALSE /\ app_i = 1 /\ all_listings = EmptyFrame
    /\ provenance = <<>> /\ properties_df = EmptyFrame /\ scrape_status = <<>>
    /\ clean_log = <<>>

CLIdle ==
    /\ cl_in = EmptyFrame /\ cl_df = EmptyFrame /\ cl_pc = "idle"
    /\ cl_pass = 0 /\ cl_first = EmptyFrame

NoResult == [kind |-> "none"]

ROIIdle == roi_args = <<>> /\ roi_pc = "idle" /\ roi_out = NoResult

\* no property card drawn, no address geocoded
UIIdle ==
    /\ compare_properties = <<>> /\ cmp_checked = {} /\ cmp_pc = 0
    /\ cmp_click = FALSE /\ cmp_button = FALSE /\ cmp_off = 0 /\ cmp_before = <<>>
    /\ geocode_cache = <<>> /\ geo_lookups = <<>> /\ geo_ret = NoResult

-----------------------------------------------------------------------------
(* The scrape button handler: app.py lines 150-271 *)

WebsiteOptions == {"zillow", "realtor", "trulia"}
MaxSites == 2
\* the multiselect: the chosen websites, each once, in the order chosen
WebsiteChoices ==
    {w \in SeqsUpTo(WebsiteOptions, MaxSites) :
        \A i, j \in DOMAIN w : i # j => w[i] # w[j]}
\* the slider: 5..100
NumListingsPool == {5, 12}
LocationInputs == {<<>>, sSeattleWA}

\* the names the multiselect offers
WebsiteName(site) ==
    CASE site = "zillow" -> sZillow
      [] site = "realtor" -> sRealtorCom
      [] site = "trulia" -> sTrulia

\* new_listings['source'] = website
WithSource(df, site) == MapCol(df, "source", LAMBDA r : Str(WebsiteName(site)))

Repeat(x, n) == [i \in 1..n |-> x]

Max(a, b) == IF a >= b THEN a ELSE b

FallbackCount_mut(n) == 0

\* max(5, num_listings // 2)
FallbackCount(n) == Max(5, n \div 2)

sNoListings == <<"N","o"," ","l","i","s","t","i","n","g","s"," ","f","o","u","n","d">>
sSuccessPrefix == <<"S","u","c","c","e","s","s","f","u","l","l","y"," ","s","c","r","a","p","e","d"," ","a","n","d"," ","v","a","l","i","d","a","t","e","d"," ">>
sSuccessSuffix == <<" ","l","i","s","t","i","n","g","s">>
SuccessStatus(n) == sSuccessPrefix \o IntToChars(n) \o sSuccessSuffix

\* lines 150-164
AppClick(ws, loc, n, demo) ==
    /\ app_pc = "idle"
    /\ websites' = ws
    /\ location' = loc
    /\ num_listings' = n
    /\ use_demo_data' = demo
    /\ app_pc' = IF ws = <<>> \/ loc = <<>> THEN "rejected" ELSE "loop"
    /\ app_i' = 1
    /\ all_listings' = EmptyFrame
    /\ provenance' = <<>>
    /\ UNCHANGED <<hr_vars, ad_vars, properties_df, scrape_status, clean_log, clock,
                   cl_vars, roi_vars, ui_vars>>

\* lines 167-185: one iteration of the demo loop
AppDemo(s) ==
    /\ app_pc = "loop" /\ use_demo_data /\ app_i <= Len(websites)
    /\ \E demo_listings \in
           {generate_sample_data(location, num_listings, WebsiteName(websites[app_i]),
                                 DrawStream(s, num_listings))} :
          /\ all_listings' = Concat(all_listings, WithSource(demo_listings, websites[app_i]))
          /\ provenance' = provenance \o Repeat("demo", num_listings)
    /\ app_i' = app_i + 1
    /\ UNCHANGED <<hr_vars, ad_vars, location, app_pc, websites, num_listings,
                   use_demo_data, properties_df, scrape_status, clean_log, clock,
                   cl_vars, roi_vars, ui_vars>>

\* lines 188-214: the adapter of the website is called
AppCall ==
    /\ app_pc = "loop" /\ ~use_demo_data /\ app_i <= Len(websites)
    /\ AdapterBegins(websites[app_i], num_listings)
    /\ app_pc' = "scraping"
    /\ UNCHANGED <<location, websites, num_listings, use_demo_data, app_i, all_listings,
                   provenance, properties_df, scrape_status, clean_log, clock,
                   cl_vars, roi_vars, ui_vars>>

AdapterEnds ==
    /\ ad_site' = "none" /\ ad_pc' = "idle" /\ ad_max' = 0 /\ ad_cards' = <<>>
    /\ ad_idx' = 1 /\ ad_lists' = EmptyLists /\ ad_ret' = NoReturn
    /\ hr_max' = 0 /\ hr_attempt' = 0 /\ hr_log' = <<>> /\ hr_result' = "idle"

\* lines 216-221: the adapter returned a frame with rows
AppMerge ==
    /\ app_pc = "scraping" /\ ad_pc = "done" /\ ~IsEmpty(ad_ret.df)
    /\ all_listings' = Concat(all_listings, WithSource(ad_ret.df, ad_site))
    /\ provenance' = provenance \o
           Repeat(IF ad_ret.kind = "sample" THEN "adapter_fallback" ELSE "live",
                  Len(ad_ret.df.rows))
    /\ app_i' = app_i + 1
    /\ app_pc' = "loop"
    /\ AdapterEnds
    /\ UNCHANGED <<location, websites, num_listings, use_demo_data,
                   properties_df, scrape_status, clean_log, clock, cl_vars, roi_vars, ui_vars>>

\* lines 222-229: the adapter returned no row
AppFallback(s) ==
    /\ app_pc = "scraping" /\ ad_pc = "done" /\ IsEmpty(ad_ret.df)
    /\ \E fallback_listings \in
           {generate_sample_data(location, FallbackCount(num_listings),
                                 WebsiteName(ad_site),
                                 DrawStream(s, FallbackCount(num_listings)))} :
          /\ all_listings' = Concat(all_listings, WithSource(fallback_listings, ad_site))
          /\ provenance' = provenance \o
                               Repeat("app_fallback", FallbackCount(num_listings))
    /\ app_i' = app_i + 1
    /\ app_pc' = "loop"
    /\ AdapterEnds
    /\ UNCHANGED <<location, websites, num_listings, use_demo_data,
                   properties_df, scrape_status, clean_log, clock, cl_vars, roi_vars, ui_vars>>

LoopOver_mut == app_i >= Len(websites)

\* `for website in websites` has gone through every selected website
LoopOver == app_i > Len(websites)

\* lines 246-271: the loop is over. validate_and_clean_data is called outside
\* any try block: what it raises ends the request.
AppFinish ==
    /\ app_pc = "loop" /\ LoopOver
    /\ IF ~IsEmpty(all_listings)
         THEN \E clean_listings \in {validate_and_clean_data(all_listings, clock)} :
                IF Failed(clean_listings)
                  THEN /\ app_pc' = "exception"
                       /\ UNCHANGED <<properties_df, scrape_status>>
                  ELSE /\ app_pc' = "delivered"
                       /\ properties_df' = clean_listings
                       /\ scrape_status' = SuccessStatus(Len(clean_listings.rows))
         ELSE /\ app_pc' = "no_listings"
              /\ scrape_status' = sNoListings
              /\ UNCHANGED properties_df
    /\ clean_log' = IF ~IsEmpty(all_listings)
                      THEN Append(clean_log, [at |-> app_i,
                                              rows |-> Len(all_listings.rows)])
                      ELSE clean_log
    /\ clock' = clock + 1
    /\ UNCHANGED <<hr_vars, ad_vars, location, websites, num_listings, use_demo_data,
                   app_i, all_listings, provenance, cl_vars, roi_vars, ui_vars>>

AppScraping == app_pc = "scraping" /\ AdapterCommon

-----------------------------------------------------------------------------
(* validate_and_clean_data stage by stage: data_processor.py lines 165-196 *)

StageOrder == <<"types", "numeric", "address", "price", "strings", "outliers",
                "derived", "stamp", "done">>

StageAfter(pc) == StageOrder[IndexIn(StageOrder, pc) + 1]

\* the step of the pipeline named pc, applied to clean_df
StageApply(pc, df, now) ==
    CASE pc = "types" -> standardize_property_types(df)
      [] pc = "numeric" -> validate_and_clean_numeric_fields(df)
      [] pc = "address" -> clean_address_data(df)
      [] pc = "price" -> validate_and_clean_price(df)
      [] pc = "strings" -> standardize_string_fields(df)
      [] pc = "outliers" -> handle_outliers(df)
      [] pc = "derived" -> add_derived_fields(df, now)
      [] pc = "stamp" -> MapCol(df, "validated_at", LAMBDA r : NumI(now))

\* line 175: an empty frame is returned as it came
CL_Empty ==
    /\ cl_pc = "types" /\ IsEmpty(cl_df)
    /\ cl_pc' = "done"
    /\ cl_first' = IF cl_pass = 1 THEN cl_df ELSE cl_first
    /\ UNCHANGED <<hr_vars, ad_vars, location, app_vars, roi_vars, ui_vars, clock, cl_in, cl_df, cl_pass>>

\* lines 181-194: one step of the pipeline
CL_Stage ==
    /\ cl_pc \in Range(StageOrder) \ {"done"}
    /\ ~(cl_pc = "types" /\ IsEmpty(cl_df))
    /\ \E out \in {StageApply(cl_pc, cl_df, clock)} :
          IF Failed(out)
            THEN cl_pc' = "raised" /\ UNCHANGED <<cl_df, cl_first>>
            ELSE /\ cl_df' = out
                 /\ cl_pc' = StageAfter(cl_pc)
                 /\ cl_first' = IF cl_pass = 1 /\ cl_pc = "stamp" THEN out ELSE cl_first
    /\ UNCHANGED <<hr_vars, ad_vars, location, app_vars, roi_vars, ui_vars, clock, cl_in, cl_pass>>

\* the frame a run returned is passed to validate_and_clean_data again, later
CL_Again ==
    /\ cl_pc = "done" /\ cl_pass = 1
    /\ cl_pass' = 2
    /\ cl_in' = cl_df
    /\ cl_pc' = "types"
    /\ clock' = clock + 1
    /\ UNCHANGED <<hr_vars, ad_vars, location, app_vars, roi_vars, ui_vars, cl_df, cl_first>>

-----------------------------------------------------------------------------
(* The frames the cleaning pipeline is run on *)

\* property_type cells: absent, a vocabulary word, a word no key matches, a
\* lower-case spelling, a synonym
TypeCells == {Null, Str(sHouse), Str(<<"F","a","r","m">>), Str(sTownhouseLower), Str(sApartment)}

\* price, square_feet, bedrooms, bathrooms of a row
NumericProfiles == {
    [price |-> NumI(300000), square_feet |-> NumI(1500), bedrooms |-> NumI(3), bathrooms |-> NumI(2)],
    [price |-> Null, square_feet |-> NumI(1500), bedrooms |-> NumI(3), bathrooms |-> Null],
    [price |-> NumI(450000), square_feet |-> Null, bedrooms |-> Null, bathrooms |-> NumI(2)],
    [price |-> Str(<<"$","1",",","2","0","0",",","0","0","0">>), square_feet |-> Str(<<"1",",","8","0","0"," ","s","q","f","t">>),
     bedrooms |-> Str(<<"4">>), bathrooms |-> Str(<<"2",".","5">>)],
    [price |-> NumI(5000), square_feet |-> NumI(60000), bedrooms |-> NumI(25), bathrooms |-> NumI(16)],
    [price |-> NumI(0 - 250000), square_feet |-> NumI(0 - 1500), bedrooms |-> NumI(0 - 1), bathrooms |-> NumI(0 - 1)],
    [price |-> NumI(10000), square_feet |-> NumI(100), bedrooms |-> NumI(0), bathrooms |-> NumI(0)],
    [price |-> NumI(100000000), square_feet |-> NumI(50000), bedrooms |-> NumI(20), bathrooms |-> NumI(15)] }

CityCells == {Str(<<"s","e","a","t","t","l","e">>), Null}

PoolRow(ptype, nums, city) ==
    [address |-> Str(<<"5"," ","O","a","k"," ","A","v","e">>), city |-> city, price |-> nums.price,
     bedrooms |-> nums.bedrooms, bathrooms |-> nums.bathrooms,
     square_feet |-> nums.square_feet, property_type |-> ptype,
     link |-> Str(<<"/","h","/","1">>), source |-> Str(sZillow)]

PlainProfile ==
    [price |-> NumI(300000), square_feet |-> NumI(1500), bedrooms |-> NumI(3), bathrooms |-> NumI(2)]

RowPool ==
    {PoolRow(ty, PlainProfile, Str(<<"s","e","a","t","t","l","e">>)) : ty \in TypeCells}
    \cup {PoolRow(Str(sHouse), np, c) : np \in NumericProfiles, c \in CityCells}

PoolColumns == AdapterColumns \cup {"source"}

\* every row of a batch has its own link
Numbered(rows) ==
    [i \in DOMAIN rows |-> Put(rows[i], "link", Str(<<"/","h","/">> \o IntToChars(i)))]

Batches == {Frame(PoolColumns, Numbered(rows)) : rows \in SeqsUpTo(RowPool, MaxRows)}

\* batches long enough for handle_outliers to look at them: equal rows but
\* one, the first or the last, whose price and area are far above the others
OddProfile ==
    [price |-> NumI(90000000), square_feet |-> NumI(45000), bedrooms |-> NumI(3), bathrooms |-> NumI(2)]

LongBatchRows == 21

\* a row without price and area
GapProfile ==
    [price |-> Null, square_feet |-> Null, bedrooms |-> NumI(3), bathrooms |-> NumI(2)]

\* the second row of a long batch, or none (0), may be a row without values
GapRows == {0, 2}

OutlierBatches ==
    {Frame(PoolColumns,
           Numbered([i \in 1..LongBatchRows |->
                        IF i = k THEN PoolRow(Str(sHouse), OddProfile, c)
                        ELSE IF i = g THEN PoolRow(Str(sHouse), GapProfile, Str(<<"s","e","a","t","t","l","e">>))
                        ELSE PoolRow(Str(sHouse), PlainProfile, Str(<<"s","e","a","t","t","l","e">>))])) :
        k \in {1, LongBatchRows}, c \in CityCells, g \in GapRows}

-----------------------------------------------------------------------------
(* calculate_roi_metrics and the two estimators: data_processor.py lines    *)
(* 482-742. A float is a Num, NaN or Inf(s); None is Null.                  *)

NaN == [k |-> "nan"]
Inf(s) == [k |-> "inf", s |-> s]

Sign(a) == IF a.n < 0 THEN -1 ELSE IF a.n > 0 THEN 1 ELSE 0

\* + - * of floats: NaN when an operand is NaN
FAdd(a, b) == IF IsNum(a) /\ IsNum(b) THEN RAdd(a, b) ELSE NaN
FSub(a, b) == IF IsNum(a) /\ IsNum(b) THEN RSub(a, b) ELSE NaN
FMul(a, b) == IF IsNum(a) /\ IsNum(b) THEN RMul(a, b) ELSE NaN

ZeroDivision == [k |-> "ZeroDivisionError"]

\* a / b: with a zero divisor Python numbers raise ZeroDivisionError, numpy
\* scalars give inf or nan and a warning
FDiv(a, b, numpy) ==
    IF ~(IsNum(a) /\ IsNum(b)) THEN NaN
    ELSE IF b.n # 0 THEN RDiv(a, b)
    ELSE IF ~numpy THEN ZeroDivision
    ELSE IF a.n = 0 THEN NaN ELSE Inf(Sign(a))

\* base ** n for a whole number n >= 0
RECURSIVE RPow(_, _)
RPow(base, n) == IF n = 0 THEN NumI(1) ELSE RMul(base, RPow(base, n - 1))

Pct(x) == FDiv(x, NumI(100), FALSE)

RMin(a, b) == IF RLt(b, a) THEN b ELSE a
RMax(a, b) == IF RLt(a, b) THEN b ELSE a

high_yield_cities ==
    {<<"d","e","t","r","o","i","t">>,
     <<"c","l","e","v","e","l","a","n","d">>,
     <<"m","e","m","p","h","i","s">>,
     <<"b","i","r","m","i","n","g","h","a","m">>,
     <<"t","o","l","e","d","o">>}
medium_yield_cities ==
    {<<"a","t","l","a","n","t","a">>,
     <<"h","o","u","s","t","o","n">>,
     <<"d","a","l","l","a","s">>,
     <<"p","h","o","e","n","i","x">>,
     <<"l","a","s"," ","v","e","g","a","s">>}
low_yield_cities ==
    {<<"s","a","n"," ","f","r","a","n","c","i","s","c","o">>,
     <<"l","o","s"," ","a","n","g","e","l","e","s">>,
     <<"n","e","w"," ","y","o","r","k">>,
     <<"s","e","a","t","t","l","e">>,
     <<"b","o","s","t","o","n">>,
     <<"m","i","a","m","i">>}
high_growth_cities ==
    {<<"a","u","s","t","i","n">>,
     <<"n","a","s","h","v","i","l","l","e">>,
     <<"r","a","l","e","i","g","h">>,
     <<"t","a","m","p","a">>,
     <<"b","o","i","s","e">>,
     <<"p","h","o","e","n","i","x">>,
     <<"s","a","l","t"," ","l","a","k","e">>}
medium_growth_cities ==
    {<<"d","a","l","l","a","s">>,
     <<"d","e","n","v","e","r">>,
     <<"a","t","l","a","n","t","a">>,
     <<"c","h","a","r","l","o","t","t","e">>,
     <<"h","o","u","s","t","o","n">>,
     <<"m","i","a","m","i">>}
low_growth_cities ==
    {<<"b","u","f","f","a","l","o">>,
     <<"c","l","e","v","e","l","a","n","d">>,
     <<"d","e","t","r","o","i","t">>,
     <<"b","a","l","t","i","m","o","r","e">>,
     <<"c","h","i","c","a","g","o">>,
     <<"m","i","l","w","a","u","k","e","e">>}

\* any(city in c for c in cities)
CityInAny(city, cities) == \E c \in cities : Contains(c, city)

\* base_yields.get(property_type, 5.0)
base_yields(pt) ==
    CASE pt = Str(sHouse) -> Num(50, 10)
      [] pt = Str(sCondo) -> Num(55, 10)
      [] pt = Str(sTownhouse) -> Num(52, 10)
      [] pt = Str(sMultiFamily) -> Num(70, 10)
      [] pt = Str(sApartment) -> Num(60, 10)
      [] pt = Str(sLand) -> Num(20, 10)
      [] pt = Str(sCommercial) -> Num(80, 10)
      [] OTHER -> Num(50, 10)

YieldCityAdjust(city) ==
    IF CityInAny(city, high_yield_cities) THEN Num(20, 10)
    ELSE IF CityInAny(city, medium_yield_cities) THEN Num(5, 10)
    ELSE IF CityInAny(city, low_yield_cities) THEN Num(-10, 10)
    ELSE NumI(0)

YieldBedsAdjust(b) ==
    IF Ge(b, NumI(2)) /\ ~Gt(b, NumI(4)) THEN Num(3, 10)
    ELSE IF Gt(b, NumI(4)) THEN Num(-2, 10)
    ELSE NumI(0)

\* lines 639-690
estimate_rental_yield(property_data) ==
    RMax(NumI(2), RMin(NumI(12),
        RAdd(RAdd(base_yields(IF IsNull(property_data["property_type"]) THEN Str(sHouse)
                              ELSE property_data["property_type"]),
                  IF IsStr(Cell(property_data, "city"))
                    THEN YieldCityAdjust(PyLower(property_data["city"].cs)) ELSE NumI(0)),
             IF IsNum(Cell(property_data, "bedrooms"))
               THEN YieldBedsAdjust(property_data["bedrooms"]) ELSE NumI(0))))

GrowthCityAdjust(city) ==
    IF CityInAny(city, high_growth_cities) THEN NumI(2)
    ELSE IF CityInAny(city, medium_growth_cities) THEN NumI(1)
    ELSE IF CityInAny(city, low_growth_cities) THEN Num(-5, 10)
    ELSE NumI(0)

GrowthPriceAdjust(pvm) ==
    IF Gt(pvm, NumI(120)) THEN NumI(1)
    ELSE IF Gt(pvm, NumI(110)) THEN Num(5, 10)
    ELSE IF Lt(pvm, NumI(80)) THEN Num(-5, 10)
    ELSE NumI(0)

GrowthTypeAdjust(pt) ==
    IF pt = Str(sLand) THEN NumI(1)
    ELSE IF pt = Str(sCondo) THEN Num(-5, 10)
    ELSE NumI(0)

\* lines 692-741
estimate_appreciation_rate(property_data) ==
    RMax(NumI(1), RMin(NumI(7),
        RAdd(RAdd(RAdd(Num(35, 10),
                       IF IsStr(Cell(property_data, "city"))
                         THEN GrowthCityAdjust(PyLower(property_data["city"].cs))
                       ELSE NumI(0)),
                  GrowthPriceAdjust(Cell(property_data, "price_vs_median"))),
             GrowthTypeAdjust(Cell(property_data, "property_type")))))

\* lines 509-514
rental_yield(a) ==
    IF ~IsNull(a.rental_yield_percent) THEN a.rental_yield_percent
    ELSE estimate_rental_yield(a.property_data)

appreciation(a) ==
    IF ~IsNull(a.appreciation_rate) THEN a.appreciation_rate
    ELSE estimate_appreciation_rate(a.property_data)

\* property_data['price'] if pd.notna(property_data['price']) else 0
price(a) == IF IsNum(a.property_data["price"]) THEN a.property_data["price"] ELSE NumI(0)

\* lines 528-557
annual_rental_income(a) == Pct(FMul(price(a), rental_yield(a)))
monthly_rental_income(a) == FDiv(annual_rental_income(a), NumI(12), FALSE)

MonthlyShare(a, rate) == FDiv(FMul(price(a), Pct(rate)), NumI(12), FALSE)

monthly_expenses(a) ==
    FAdd(FAdd(FAdd(FAdd(FAdd(FAdd(
        FMul(monthly_rental_income(a), Pct(a.vacancy_rate)),
        MonthlyShare(a, a.property_tax_rate)),
        MonthlyShare(a, a.insurance_rate)),
        MonthlyShare(a, a.maintenance_rate)),
        FMul(monthly_rental_income(a), Pct(a.property_mgmt_rate))),
        a.monthly_utilities),
        a.monthly_hoa)

\* lines 559-563
down_payment(a) == FMul(price(a), Pct(a.down_payment_pct))
loan_amount(a) == FSub(price(a), down_payment(a))
monthly_interest_rate(a) == FDiv(Pct(a.interest_rate), NumI(12), FALSE)
loan_term_months(a) == FMul(a.loan_term_years, NumI(12))

\* (1 + i) ** n, n a whole number of months
Growth(a) == RPow(FAdd(NumI(1), monthly_interest_rate(a)), RFloor(loan_term_months(a)))

\* lines 567-570
mortgage_payment(a) ==
    IF Gt(loan_amount(a), NumI(0))
      THEN FDiv(FMul(loan_amount(a), FMul(monthly_interest_rate(a), Growth(a))),
                FSub(Growth(a), NumI(1)), a.numpy)
    ELSE NumI(0)

\* lines 573-574
monthly_cash_flow(a) ==
    FSub(FSub(monthly_rental_income(a), monthly_expenses(a)), mortgage_payment(a))
annual_cash_flow(a) == FMul(monthly_cash_flow(a), NumI(12))

\* lines 577-583
future_value(a) ==
    FMul(price(a), RPow(FAdd(NumI(1), Pct(appreciation(a))), a.investment_horizon_years))
total_appreciation(a) == FSub(future_value(a), price(a))
total_cash_flow(a) == FMul(annual_cash_flow(a), NumI(a.investment_horizon_years))
total_investment(a) == FAdd(down_payment(a), FMul(monthly_expenses(a), NumI(12)))
\* x * 100 where x is the outcome of a division
Times100(x) == IF IsNum(x) THEN RMul(x, NumI(100)) ELSE x

total_roi(a) ==
    Times100(FDiv(FAdd(total_appreciation(a), total_cash_flow(a)), total_investment(a),
                  a.numpy))

sInsufficient == <<"I","n","s","u","f","f","i","c","i","e","n","t"," ","d","a","t","a"," ","f","o","r"," ","a","n","a","l","y","s","i","s">>
sRecExcellent == <<"E","x","c","e","l","l","e","n","t"," ","i","n","v","e","s","t","m","e","n","t"," ","o","p","p","o","r","t","u","n","i","t","y"," ","w","i","t","h"," ","s","t","r","o","n","g"," ","r","e","t","u","r","n","s">>
sRecGood == <<"G","o","o","d"," ","i","n","v","e","s","t","m","e","n","t"," ","w","i","t","h"," ","s","o","l","i","d"," ","p","o","t","e","n","t","i","a","l"," ","r","e","t","u","r","n","s">>
sRecAverage == <<"A","v","e","r","a","g","e"," ","i","n","v","e","s","t","m","e","n","t"," ","o","p","p","o","r","t","u","n","i","t","y">>
sRecBelow == <<"B","e","l","o","w"," ","a","v","e","r","a","g","e"," ","r","e","t","u","r","n","s",","," ","c","o","n","s","i","d","e","r"," ","n","e","g","o","t","i","a","t","i","n","g"," ","p","r","i","c","e">>
sRecNot == <<"N","o","t"," ","r","e","c","o","m","m","e","n","d","e","d"," ","a","s"," ","a","n"," ","i","n","v","e","s","t","m","e","n","t"," ","p","r","o","p","e","r","t","y">>

\* lines 586-596: every comparison with NaN is False
recommendation(roi) ==
    IF Gt(roi, NumI(50)) \/ roi = Inf(1) THEN Str(sRecExcellent)
    ELSE IF Gt(roi, NumI(30)) THEN Str(sRecGood)
    ELSE IF Gt(roi, NumI(15)) THEN Str(sRecAverage)
    ELSE IF Gt(roi, NumI(0)) THEN Str(sRecBelow)
    ELSE Str(sRecNot)

\* lines 602-606
cap_rate(a) ==
    Times100(FDiv(FSub(annual_rental_income(a), FMul(monthly_expenses(a), NumI(12))),
                  price(a), a.numpy))
cash_on_cash_return(a) ==
    Times100(FDiv(annual_cash_flow(a), down_payment(a), a.numpy))

\* lines 610-615
equity_5yr(a) ==
    IF Gt(loan_amount(a), NumI(0))
      THEN FAdd(FAdd(down_payment(a),
                     FMul(FDiv(loan_amount(a), loan_term_months(a), a.numpy),
                          RMin(NumI(60), loan_term_months(a)))),
                total_appreciation(a))
    ELSE FAdd(price(a), total_appreciation(a))

\* line 618: ((1 + roi / 100) ** (1 / years) - 1) * 100; the root is taken
\* only for one year, otherwise the term is kept as it stands
annualized_roi(a) ==
    IF ~IsNum(total_roi(a)) THEN total_roi(a)
    ELSE IF a.investment_horizon_years = 1
      THEN FMul(FSub(FAdd(NumI(1), Pct(total_roi(a))), NumI(1)), NumI(100))
    ELSE [k |-> "root", of |-> FAdd(NumI(1), Pct(total_roi(a))),
          years |-> a.investment_horizon_years]

\* lines 517-526: the dictionary returned when the price is zero
InsufficientResult ==
    [rental_yield |-> Null, annual_rental_income |-> Null, cash_flow |-> Null,
     appreciation_rate |-> Null, five_year_value |-> Null, roi_5yr |-> Null,
     investment_recommendation |-> Str(sInsufficient)]

\* lines 620-637: the dictionary returned otherwise
NormalResult(a) ==
    [rental_yield |-> rental_yield(a),
     annual_rental_income |-> annual_rental_income(a),
     monthly_cash_flow |-> monthly_cash_flow(a),
     appreciation_rate |-> appreciation(a),
     future_value |-> future_value(a),
     roi |-> total_roi(a),
     total_roi_pct |-> total_roi(a),
     investment_horizon |-> NumI(a.investment_horizon_years),
     investment_recommendation |-> recommendation(total_roi(a)),
     mortgage_payment |-> mortgage_payment(a),
     monthly_expenses |-> monthly_expenses(a),
     cap_rate |-> cap_rate(a),
     cash_on_cash_return |-> cash_on_cash_return(a),
     equity_5yr |-> equity_5yr(a),
     annualized_roi |-> annualized_roi(a)]

\* a division of the call raised ZeroDivisionError
RoiRaises(a) ==
    ZeroDivision \in {mortgage_payment(a), total_roi(a), cash_on_cash_return(a)}

calculate_roi_metrics(a) ==
    IF price(a) = NumI(0) THEN [kind |-> "dict", d |-> InsufficientResult]
    ELSE IF RoiRaises(a) THEN [kind |-> "raised", err |-> "ZeroDivisionError"]
    ELSE [kind |-> "dict", d |-> NormalResult(a)]

\* the call of calculate_roi_metrics
ROI_Call ==
    /\ roi_pc = "call"
    /\ roi_out' = calculate_roi_metrics(roi_args)
    /\ roi_pc' = "done"
    /\ UNCHANGED <<hr_vars, ad_vars, location, app_vars, clock, cl_vars, roi_args, ui_vars>>

\* the listings calculate_roi_metrics is called on: priced, price zero, price
\* null; in Seattle or without a city
RoiListings ==
    {[PoolRow(Str(sHouse), PlainProfile, c) EXCEPT !["price"] = p] :
        p \in {NumI(100500), NumI(0), Null}, c \in CityCells}

\* interest rate (per cent a year) and loan term (months) of a call: rates
\* and terms whose payments are fractions with small terms
RateAndTerm == {<<0, 1>>, <<0, 2>>, <<12, 1>>, <<1200, 1>>, <<1200, 2>>}

\* the assumptions of a call (lines 482-486): given or estimated yield and
\* appreciation, down payment 0, 20 or 100 per cent, the other rates as the
\* signature defaults them, a horizon of one year or of five (with no
\* appreciation).
\* numpy: the price is a numpy scalar (a row of a frame) or a Python number.
RoiCalls ==
    {[property_data |-> pd, rental_yield_percent |-> ry, appreciation_rate |-> ah[1],
      down_payment_pct |-> NumI(dp), interest_rate |-> NumI(rt[1]),
      loan_term_years |-> Num(rt[2], 12),
      vacancy_rate |-> NumI(5), property_tax_rate |-> Num(12, 10),
      insurance_rate |-> Num(5, 10), maintenance_rate |-> NumI(1),
      property_mgmt_rate |-> NumI(8), monthly_utilities |-> NumI(0),
      monthly_hoa |-> NumI(0), investment_horizon_years |-> ah[2], numpy |-> np] :
        pd \in RoiListings, ry \in {Null, NumI(5)},
        ah \in {<<Null, 1>>, <<NumI(0), 1>>, <<NumI(0), 5>>},
        dp \in {0, 20, 100}, rt \in RateAndTerm, np \in BOOLEAN}

\* state and zip_code of a row
AddressProfiles == {
    [state |-> Str(<<"w","a">>), zip_code |-> Str(<<"9","8","1","0","1","-","1","2","3","4">>)],
    [state |-> Str(<<" ","W","A">>), zip_code |-> Str(<<"9","8","1">>)],
    [state |-> Str(<<"W","a","s","h","i","n","g","t","o","n">>), zip_code |-> Str(<<"n","/","a">>)],
    [state |-> Null, zip_code |-> Null],
    [state |-> Str(<<"X","X">>), zip_code |-> NumI(98101)],
    [state |-> Str(<<"t","x">>), zip_code |-> NumI(2134)] }

\* rows with a state and a zip code, in a city or without one
AddressRows ==
    {[x \in PoolColumns \cup {"state", "zip_code"} |->
         IF x \in {"state", "zip_code"} THEN ap[x]
         ELSE PoolRow(Str(sHouse), PlainProfile, c)[x]] :
        ap \in AddressProfiles, c \in CityCells}

AddressBatches ==
    {Frame(PoolColumns \cup {"state", "zip_code"}, Numbered(rows)) :
        rows \in SeqsUpTo(AddressRows, MaxRows) \ {<<>>}}

\* price, square_feet, bedrooms, bathrooms written as text: with a unit or a
\* currency sign, with two decimal points or no digit, and outside the limits
TextProfiles == {
    [price |-> Str(<<"$","1",",","2","0","0",",","0","0","0">>),
     square_feet |-> Str(<<"1",",","8","0","0"," ","s","q","f","t">>),
     bedrooms |-> Str(<<"3"," ","b","d">>), bathrooms |-> Str(<<"2"," ","b","a">>)],
    [price |-> Str(<<"1",".","2",".","3">>), square_feet |-> Str(<<"s","q","f","t">>),
     bedrooms |-> Str(<<"4">>), bathrooms |-> Str(<<"2",".","5">>)],
    [price |-> Str(<<"$","5",",","0","0","0">>),
     square_feet |-> Str(<<"6","0",",","0","0","0"," ","s","q","f","t">>),
     bedrooms |-> Str(<<"2","5">>), bathrooms |-> Str(<<"1","6">>)] }

TextBatches ==
    {Frame(PoolColumns, Numbered(rows)) :
        rows \in SeqsUpTo({PoolRow(Str(sHouse), tp, Str(<<"s","e","a","t","t","l","e">>)) :
                              tp \in TextProfiles}, MaxRows) \ {<<>>}}

\* batches whose rows differ in every input of the value score, one profile
\* lacking its bathrooms
ScoreProfiles == {
    PlainProfile,
    [price |-> NumI(450000), square_feet |-> NumI(2000), bedrooms |-> NumI(4), bathrooms |-> Null],
    [price |-> NumI(600000), square_feet |-> NumI(2500), bedrooms |-> NumI(2), bathrooms |-> NumI(3)] }

ScoreBatchRows == 3

ScoreBatches ==
    {Frame(PoolColumns, Numbered(rows)) :
        rows \in [1..ScoreBatchRows ->
                    {PoolRow(Str(sHouse), sp, Str(<<"s","e","a","t","t","l","e">>)) :
                        sp \in ScoreProfiles}]}

\* two-row batches for the investment rating: a row at 200 per square foot
\* and a second row of the same area whose price puts the two ratios in
\* different ranges of the rating ladder, in the same city or in none
RatingPrices == {330000, 360000, 421500, 900000}

RatingBatches ==
    {Frame(PoolColumns,
           Numbered(<<PoolRow(Str(sHouse), PlainProfile, Str(<<"s","e","a","t","t","l","e">>)),
                      PoolRow(Str(sHouse),
                              [price |-> NumI(p), square_feet |-> NumI(1500),
                               bedrooms |-> NumI(3), bathrooms |-> NumI(2)], c)>>)) :
        p \in RatingPrices, c \in CityCells}

-----------------------------------------------------------------------------
(* The Compare box of display_property_card (utils.py lines 196-256) and   *)
(* the Clear Comparison button of display_interactive_comparison (lines    *)
(* 459-462), as the script of app.py runs them: every run draws the cards  *)
(* of the results (app.py lines 481-487), then the comparison tab (lines   *)
(* 525-530). A property stands for the text str(property_data.values), by  *)
(* which the code compares and from which it makes the widget key.         *)

NumProperties == 6

\* the cards of the results page, in the order they are drawn
Cards == [k \in 1..NumProperties |-> k]

CompareLimit == 5

\* append whatever the list holds
AddToCompare_mut(list, p) == Append(list, p)

\* lines 215-238, the box is checked: append unless the property is in the
\* list or the list holds five (then a warning is shown)
AddToCompare(list, p) ==
    IF \E i \in DOMAIN list : list[i] = p THEN list
    ELSE IF Len(list) < CompareLimit THEN Append(list, p)
    ELSE list

\* lines 239-256, the box is not checked: keep what is not the property
RemoveFromCompare(list, p) == SelectSeq(list, LAMBDA comp : comp # p)

\* the user checks or unchecks the Compare box of a card: the widget state
\* changes and the script runs again
CMP_Toggle(p) ==
    /\ cmp_pc = 0
    /\ cmp_checked' = IF p \in cmp_checked THEN cmp_checked \ {p} ELSE cmp_checked \cup {p}
    /\ cmp_off' = IF p \in cmp_checked THEN p ELSE 0
    /\ cmp_before' = compare_properties
    /\ cmp_click' = FALSE
    /\ cmp_pc' = 1
    /\ UNCHANGED <<compare_properties, cmp_button>>

\* the user presses Clear Comparison, which the page shows
CMP_PressClear ==
    /\ cmp_pc = 0 /\ cmp_button
    /\ cmp_click' = TRUE
    /\ cmp_off' = 0
    /\ cmp_before' = compare_properties
    /\ cmp_pc' = 1
    /\ UNCHANGED <<compare_properties, cmp_checked, cmp_button>>

\* display_property_card draws the card the script is at
CMP_Card ==
    /\ cmp_pc \in DOMAIN Cards
    /\ compare_properties' =
           IF Cards[cmp_pc] \in cmp_checked
             THEN AddToCompare(compare_properties, Cards[cmp_pc])
           ELSE RemoveFromCompare(compare_properties, Cards[cmp_pc])
    /\ cmp_pc' = cmp_pc + 1
    /\ UNCHANGED <<cmp_checked, cmp_click, cmp_button, cmp_off, cmp_before>>

\* the comparison tab: display_interactive_comparison when the list is not
\* empty; its button, when pressed, empties the list and reruns the script
CMP_Tab ==
    /\ cmp_pc = Len(Cards) + 1
    /\ cmp_button' = (compare_properties # <<>>)
    /\ cmp_click' = FALSE
    /\ IF compare_properties # <<>> /\ cmp_click
         THEN compare_properties' = <<>> /\ cmp_pc' = 1
         ELSE UNCHANGED compare_properties /\ cmp_pc' = 0
    /\ UNCHANGED <<cmp_checked, cmp_off, cmp_before>>

CMP_Step ==
    /\ \/ \E p \in Range(Cards) : CMP_Toggle(p)
       \/ CMP_PressClear
       \/ CMP_Card
       \/ CMP_Tab
    /\ UNCHANGED <<hr_vars, ad_vars, location, app_vars, clock, cl_vars, roi_vars, geo_vars>>

-----------------------------------------------------------------------------
(* geocode_address: utils.py lines 464-507 *)

Addresses == {"a1", "a2", "a3"}

\* (None, None)
NoCoords == [kind |-> "none"]
Coords(lat, lng) == [kind |-> "coords", lat |-> lat, lng |-> lng]

\* what geolocator.geocode(address, timeout=5) can do: return a location,
\* return None, raise GeocoderTimedOut or GeocoderUnavailable, raise
\* anything else
GeocodeOutcomes ==
    {[kind |-> "location", lat |-> 47, lng |-> 122], [kind |-> "location", lat |-> 30, lng |-> 97],
     [kind |-> "not_found"], [kind |-> "timed_out"], [kind |-> "error"]}

\* lines 490-507: what is stored and returned for an outcome
GeocodedValue(outcome) ==
    IF outcome.kind = "location" THEN Coords(outcome.lat, outcome.lng) ELSE NoCoords

\* a failed lookup is not stored
CacheStore_mut(cache, address, value) ==
    IF value = NoCoords THEN cache
    ELSE [a \in DOMAIN cache \cup {address} |-> IF a = address THEN value ELSE cache[a]]

\* st.session_state.geocode_cache[address] = value
CacheStore(cache, address, value) ==
    [a \in DOMAIN cache \cup {address} |-> IF a = address THEN value ELSE cache[a]]

LookupsOf(address) == IF address \in DOMAIN geo_lookups THEN geo_lookups[address] ELSE 0

MaxLookups == 2

\* one call of geocode_address
GEO_Call(address, outcome) ==
    /\ IF address \in DOMAIN geocode_cache
         THEN /\ geo_ret' = [kind |-> "returned", address |-> address,
                              value |-> geocode_cache[address]]
              /\ UNCHANGED <<geocode_cache, geo_lookups>>
         ELSE /\ LookupsOf(address) < MaxLookups
              /\ geo_lookups' = [a \in DOMAIN geo_lookups \cup {address} |->
                                    IF a = address THEN LookupsOf(address) + 1
                                    ELSE geo_lookups[a]]
              /\ geocode_cache' = CacheStore(geocode_cache, address, GeocodedValue(outcome))
              /\ geo_ret' = [kind |-> "returned", address |-> address,
                              value |-> GeocodedValue(outcome)]
    /\ UNCHANGED <<hr_vars, ad_vars, location, app_vars, clock, cl_vars, roi_vars, cmp_vars>>

GEO_Step == \E address \in Addresses, outcome \in GeocodeOutcomes : GEO_Call(address, outcome)

-----------------------------------------------------------------------------
(* Specifications *)

\* handle_request called on its own, with any max_retries
InitFetch ==
    /\ hr_max \in 0..MaxRetriesBound
    /\ hr_attempt = 0 /\ hr_log = <<>> /\ hr_result = "running"
    /\ ADIdle /\ AppIdle /\ CLIdle /\ ROIIdle /\ UIIdle
    /\ location = <<>> /\ clock = 1

NextFetch == HandleRequest

SpecFetch == InitFetch /\ [][NextFetch]_vars

\* one of the five adapters called on its own
InitAdapter ==
    /\ ad_site \in Sites
    /\ ad_max \in 0..MaxCards
    /\ location \in Locations
    /\ ad_pc = "fetch" /\ ad_cards = <<>> /\ ad_idx = 1
    /\ ad_lists = EmptyLists /\ ad_ret = NoReturn
    /\ hr_max = DefaultMaxRetries /\ hr_attempt = 0 /\ hr_log = <<>>
    /\ hr_result = IF ad_site = "redfin" THEN "idle" ELSE "running"
    /\ AppIdle /\ CLIdle /\ ROIIdle /\ UIIdle /\ clock = 1

NextAdapter ==
    \/ AdapterCommon
    \/ \E o \in Outcomes, page \in Pages, s \in Streams : AD_RedfinGet(o, page, s)

SpecAdapter == InitAdapter /\ [][NextAdapter]_vars

\* the application: one click of the scrape button
Init ==
    /\ HRIdle /\ ADIdle /\ AppIdle /\ CLIdle /\ ROIIdle /\ UIIdle
    /\ location = <<>> /\ clock = 1

Next ==
    \/ \E ws \in WebsiteChoices, loc \in LocationInputs, n \in NumListingsPool,
          demo \in BOOLEAN : AppClick(ws, loc, n, demo)
    \/ \E s \in Streams : AppDemo(s)
    \/ AppCall
    \/ AppScraping
    \/ AppMerge
    \/ \E s \in Streams : AppFallback(s)
    \/ AppFinish

Spec == Init /\ [][Next]_vars

\* validate_and_clean_data called on a frame, and again on what it returned
InitClean ==
    /\ cl_in \in Batches \cup OutlierBatches \cup AddressBatches \cup TextBatches \cup ScoreBatches
             \cup RatingBatches
    /\ cl_df = cl_in
    /\ cl_pc = "types" /\ cl_pass = 1 /\ cl_first = EmptyFrame
    /\ HRIdle /\ ADIdle /\ AppIdle /\ ROIIdle /\ UIIdle
    /\ location = <<>> /\ clock = 1

NextClean == CL_Empty \/ CL_Stage \/ CL_Again

SpecClean == InitClean /\ [][NextClean]_vars

\* calculate_roi_metrics called on a listing
InitRoi ==
    /\ roi_args \in RoiCalls
    /\ roi_pc = "call" /\ roi_out = NoResult
    /\ HRIdle /\ ADIdle /\ AppIdle /\ CLIdle /\ UIIdle
    /\ location = <<>> /\ clock = 1

NextRoi == ROI_Call

SpecRoi == InitRoi /\ [][NextRoi]_vars

\* the results page and its comparison tab, used by one user
InitCompare ==
    /\ HRIdle /\ ADIdle /\ AppIdle /\ CLIdle /\ ROIIdle /\ UIIdle
    /\ location = <<>> /\ clock = 1

NextCompare == CMP_Step

SpecCompare == InitCompare /\ [][NextCompare]_vars

\* geocode_address called any number of times in one session
InitGeocode ==
    /\ HRIdle /\ ADIdle /\ AppIdle /\ CLIdle /\ ROIIdle /\ UIIdle
    /\ location = <<>> /\ clock = 1

NextGeocode == GEO_Step

SpecGeocode == InitGeocode /\ [][NextGeocode]_vars

-----------------------------------------------------------------------------
(* Properties *)

\* the request of an adapter call got its page
FetchSucceeded ==
    IF ad_site = "redfin"
      THEN hr_log # <<>> /\ hr_log[1].status = 200
    ELSE hr_result = "returned"

\* the card's extraction raises part-way through
CardFails(site, card) == AppendsBeforeRaise(site, card) < Cardinality(AdapterColumns)

\* the records of the cards whose extraction does not fail, in page order
ParsedRecords(site, cards) ==
    [i \in 1..Len(SelectSeq(cards, LAMBDA c : ~CardFails(site, c))) |->
        [col \in AdapterColumns |->
            CardField(site, SelectSeq(cards, LAMBDA c : ~CardFails(site, c))[i], col)]]

ReturnsParsed ==
    /\ ad_ret.kind = "parsed"
    /\ ad_ret.df.rows = ParsedRecords(ad_site, ad_cards)

Is2xx(s) == s >= 200 /\ s < 300

\* C1: a scrape request with at least one selected source and a non-empty
\* location never ends in an exception or in "No listings found", and when it
\* is delivered a cleaned batch of at least one row is stored.
C1_AlwaysDelivered ==
    /\ app_pc \notin {"exception", "no_listings"}
    /\ app_pc = "delivered" => ~IsEmpty(properties_df) /\ ~Failed(properties_df)

\* C2: when a card's extraction fails part-way the adapter still returns the
\* records of the other cards, each complete and from one card: the parsed
\* batch is not replaced.
C2_BadCardSkipped ==
    (/\ ad_pc = "done"
     /\ FetchSucceeded
     /\ \E i \in DOMAIN ad_cards : CardFails(ad_site, ad_cards[i]))
    => /\ ReturnsParsed
       /\ \A i \in DOMAIN ad_ret.origins : Cardinality(ad_ret.origins[i]) = 1

sSampleMark == <<"(","S","a","m","p","l","e",")">>

\* C3: every row of a delivered batch that the generator produced as a
\* fallback carries a source label ending in "(Sample)".
C3_FallbackLabelled ==
    app_pc = "delivered" =>
        \A i \in DOMAIN provenance :
            provenance[i] \in {"adapter_fallback", "app_fallback"} =>
                /\ IsStr(properties_df.rows[i]["source"])
                /\ EndsWith(properties_df.rows[i]["source"].cs, sSampleMark)

\* C4: cleaning an already cleaned, non-empty batch completes and changes
\* nothing but the validation timestamp.
C4_Idempotent ==
    (cl_pass = 2 /\ ~IsEmpty(cl_in) /\ cl_pc \in {"done", "raised"}) =>
        /\ cl_pc = "done"
        /\ cl_df.cols = cl_first.cols
        /\ DropCols(cl_df, {"validated_at"}).rows = DropCols(cl_first, {"validated_at"}).rows

\* C5: cleaning a non-empty batch with the adapters' columns completes
\* whatever fields are null in its rows.
C5_NullsNeverAbort ==
    cl_pass = 1 => cl_pc # "raised"

BoundOf(c) ==
    CASE c = "bedrooms" -> <<0, 20>>
      [] c = "bathrooms" -> <<0, 15>>
      [] c = "square_feet" -> <<100, 50000>>
      [] c = "price" -> <<10000, 100000000>>

WithinBound(v, c) == RLe(NumI(BoundOf(c)[1]), v) /\ RLe(v, NumI(BoundOf(c)[2]))

\* C6: once the numeric fields and the price are cleaned, a numeric input
\* within its bound is kept as it is and one outside its bound is null.
C6_BoundsNullNotClamp ==
    (cl_pass = 1 /\ cl_pc \in {"strings", "outliers", "derived", "stamp", "done", "raised"}) =>
        \A i \in DOMAIN cl_in.rows :
            \A c \in {"bedrooms", "bathrooms", "square_feet", "price"} :
                IsNum(cl_in.rows[i][c]) =>
                    cl_df.rows[i][c] = IF WithinBound(cl_in.rows[i][c], c)
                                         THEN cl_in.rows[i][c] ELSE Null

Vocabulary ==
    {sHouse, sCondo, sTownhouse, sMultiFamily, sApartment, sLand, sCommercial, sUnknown}

\* C7: after type standardization every row's property type is a word of the
\* closed vocabulary; an unmatched or absent label has become Unknown.
C7_ClosedVocabulary ==
    (cl_pass = 1 /\ cl_pc = "numeric") =>
        \A i \in DOMAIN cl_df.rows :
            /\ IsStr(cl_df.rows[i]["property_type"])
            /\ cl_df.rows[i]["property_type"].cs \in Vocabulary

\* C8: in handle_request a 403 response is the last request of the call, and
\* the call has ended with an error.
C8_ForbiddenStops ==
    \A i \in DOMAIN hr_log :
        hr_log[i].status = 403 => i = Len(hr_log) /\ hr_result = "raised"

\* a call that got a 403 while attempts remained
C8_Witness ==
    /\ hr_log # <<>>
    /\ hr_log[Len(hr_log)].status = 403
    /\ Len(hr_log) < hr_max
    /\ hr_result = "raised"

\* C9: handle_request issues at most max_retries requests, each with a
\* timeout; it returns the response of the first attempt with a success
\* status and issues no request after it; it raises only after a final
\* attempt that ended in a non-2xx status or a network error.
C9_TwoOutcomes ==
    /\ Len(hr_log) <= hr_max
    /\ \A i \in DOMAIN hr_log : hr_log[i].timeout > 0
    /\ \A i \in DOMAIN hr_log : Is2xx(hr_log[i].status) => i = Len(hr_log)
    /\ hr_result = "returned" => hr_log # <<>> /\ Is2xx(hr_log[Len(hr_log)].status)
    /\ (hr_result = "raised" /\ hr_log # <<>>) => ~Is2xx(hr_log[Len(hr_log)].status)

\* C10: when the fetch succeeded and at least one card was parsed without
\* failure, the adapter returns exactly the records parsed from those cards,
\* never generated records.
C10_SyntheticOnlyOnFailure ==
    (/\ ad_pc = "done"
     /\ FetchSucceeded
     /\ \E i \in DOMAIN ad_cards : ~CardFails(ad_site, ad_cards[i]))
    => ReturnsParsed

\* the adapter call is over, its fetch succeeded and the page had no card
ZeroCardsReturn ==
    /\ app_pc = "scraping" /\ ad_pc = "done"
    /\ FetchSucceeded /\ ad_cards = <<>>

\* C11: when the fetch succeeds and the page yields zero cards the adapter
\* returns an empty frame, not an error and not generated records, and the
\* handler's next step adds at least one generated row for that website.
C11_ZeroCardsFallback ==
    [][ZeroCardsReturn =>
          /\ ad_ret.kind = "parsed" /\ IsEmpty(ad_ret.df) /\ ~Failed(ad_ret.df)
          /\ Len(provenance') > Len(provenance)
          /\ \A i \in (Len(provenance) + 1)..Len(provenance') :
                 /\ provenance'[i] = "app_fallback"
                 /\ all_listings'.rows[i]["source"] = Str(WebsiteName(ad_site))
          /\ Len(all_listings'.rows) = Len(provenance')]_vars

\* the handler has added the generator's rows for a website whose page had
\* no card
C11_Witness ==
    /\ app_pc = "loop" /\ app_i = 2
    /\ Len(provenance) = FallbackCount(num_listings)
    /\ provenance[1] = "app_fallback"
    /\ Len(all_listings.rows) = Len(provenance)

\* the handler is over
RequestOver == app_pc \in {"delivered", "exception", "no_listings"}

\* the websites whose rows are in all_listings
MergedSources == {all_listings.rows[i]["source"] : i \in DOMAIN all_listings.rows}

\* C12: within one scrape request validate_and_clean_data is called exactly
\* once, when the loop over the selected websites is over and the rows of
\* every one of them are in the batch; it is not called while a website is
\* still to be processed and no row is added to the batch after the call.
C12_CleanedOnceAfterMerge ==
    /\ Len(clean_log) = IF RequestOver THEN 1 ELSE 0
    /\ \A k \in DOMAIN clean_log :
          /\ clean_log[k].at = Len(websites) + 1
          /\ clean_log[k].rows = Len(all_listings.rows)
          /\ clean_log[k].rows = Len(provenance)
          /\ \A w \in DOMAIN websites : Str(WebsiteName(websites[w])) \in MergedSources

\* a request over two websites, one answered by demo or live rows and the
\* other too, has been cleaned
C12_Witness ==
    /\ RequestOver /\ Len(websites) = 2
    /\ Len(clean_log) = 1
    /\ Cardinality(MergedSources) = 2
    /\ Cardinality(Range(provenance)) = 2

\* the rows of the frame are the rows that came in, in their order
RowsKept == Column(cl_df, "link") = Column(cl_in, "link")

\* C13: for any non-empty batch validate_and_clean_data returns a frame with
\* the rows of the batch, each once and in the same order.
C13_RowsPreserved ==
    (cl_pass = 1 /\ ~IsEmpty(cl_in) /\ cl_pc \in {"done", "raised"}) =>
        cl_pc = "done" /\ RowsKept

\* the call was made on a listing whose price is zero or null
Unpriced == roi_pc = "done" /\ ~Gt(roi_args.property_data["price"], NumI(0))
Priced == roi_pc = "done" /\ Gt(roi_args.property_data["price"], NumI(0))

\* the metrics of the dictionary returned for a priced listing
MetricKeys ==
    {"rental_yield", "annual_rental_income", "monthly_cash_flow", "appreciation_rate",
     "future_value", "roi", "mortgage_payment", "monthly_expenses", "cap_rate",
     "cash_on_cash_return", "equity_5yr", "annualized_roi"}

\* C14: on a listing whose price is zero or null calculate_roi_metrics
\* returns, without raising, a dictionary in which every metric of the normal
\* result is present and null.
C14_InsufficientAllNull ==
    Unpriced =>
        /\ roi_out.kind = "dict"
        /\ \A key \in MetricKeys : key \in DOMAIN roi_out.d /\ roi_out.d[key] = Null

\* C20: for a priced listing and any assumptions calculate_roi_metrics
\* returns a mortgage payment that is a number, zero when the loan amount is
\* zero, and a monthly cash flow equal to rent minus expenses minus that
\* payment.
C20_PaymentDefined ==
    Priced =>
        /\ roi_out.kind = "dict"
        /\ IsNum(roi_out.d["mortgage_payment"])
        /\ roi_args.down_payment_pct = NumI(100) => roi_out.d["mortgage_payment"] = NumI(0)
        /\ roi_out.d["monthly_cash_flow"] =
               RSub(RSub(monthly_rental_income(roi_args), roi_out.d["monthly_expenses"]),
                    roi_out.d["mortgage_payment"])

\* the derived fields of the first run are in cl_df
DerivedDone == cl_pass = 1 /\ cl_pc \in {"stamp", "done"}

\* the weighted percentage of the populated fields of a row, rounded: each
\* field counts with its weight out of 1.00
PopulatedScore(r) ==
    RoundCell(RMul(NumI(100),
                   SumCells([i \in DOMAIN quality_columns |->
                                IF IsNull(Cell(r, quality_columns[i])) THEN NumI(0)
                                ELSE QualityWeight(quality_columns[i])])))

ScoreCategory(score) ==
    IF score >= 90 THEN Str(sExcellent)
    ELSE IF score >= 70 THEN Str(sGood)
    ELSE IF score >= 50 THEN Str(sFair)
    ELSE Str(sPoor)

\* C15: the data-quality score of a row is the rounded weighted percentage
\* of its populated fields over the weights (a whole number from 0 to 100),
\* its category follows the ladder 90 / 70 / 50, and a row with neither city
\* nor state populated (null or absent) and the other fields populated scores
\* 85 and is Good.
C15_QualityScore ==
    DerivedDone =>
        \A i \in DOMAIN cl_df.rows :
            /\ cl_df.rows[i]["data_quality_score"] = PopulatedScore(cl_df.rows[i])
            /\ cl_df.rows[i]["data_quality_score"].d = 1
            /\ cl_df.rows[i]["data_quality_score"].n \in 0..100
            /\ cl_df.rows[i]["data_quality_category"] =
                   ScoreCategory(cl_df.rows[i]["data_quality_score"].n)

\* a zip code of exactly five digits
IsFiveDigits(c) == IsStr(c) /\ Len(c.cs) = 5 /\ \A i \in 1..5 : IsDigit(c.cs[i])

\* C16: after address cleanup every state is one of the valid two-letter
\* codes or null and every zip code is exactly five digits or null.
C16_StateAndZip ==
    (cl_pass = 1 /\ cl_pc = "price" /\ HasCol(cl_df, "state") /\ HasCol(cl_df, "zip_code")) =>
        \A i \in DOMAIN cl_df.rows :
            /\ IsNull(cl_df.rows[i]["state"])
               \/ (IsStr(cl_df.rows[i]["state"]) /\ cl_df.rows[i]["state"].cs \in valid_states)
            /\ IsNull(cl_df.rows[i]["zip_code"]) \/ IsFiveDigits(cl_df.rows[i]["zip_code"])

\* the link a card with an href should get: the href when it is absolute, the
\* origin of the website followed by the href when it is relative
RebasedLink(site, href) ==
    IF StartsWith(href, sHttp) THEN href ELSE Origin(site) \o href

\* C17: in every adapter the link extracted for a card is the card's href
\* when the href is absolute and the website's origin followed by the href
\* when it is relative.
C17_LinksRebased ==
    \A i \in DOMAIN ad_lists["link"] :
        ~IsNull(ad_cards[ad_lists["link"][i].card].href) =>
            ad_lists["link"][i].v =
                Str(RebasedLink(ad_site, ad_cards[ad_lists["link"][i].card].href.cs))

\* the property types random.choice(prop_types) can return
ChoosableTypes == {prop_types[i] : i \in DOMAIN prop_types}

\* one generated record is inside the documented ranges
SampleInRange(r) ==
    /\ r["price"].d = 1 /\ r["price"].n >= 100000 /\ r["price"].n <= 1500000
    /\ r["bedrooms"].d = 1 /\ r["bedrooms"].n >= 1 /\ r["bedrooms"].n <= 6
    /\ \E h \in 2..9 : r["bathrooms"] = Num(h, 2)
    /\ r["square_feet"].d = 1 /\ r["square_feet"].n >= 800 /\ r["square_feet"].n <= 5000
    /\ r["property_type"].cs \in Vocabulary

\* what the generator returned to the adapter's caller
SampleReturned == ad_pc = "done" /\ ad_ret.kind = "sample"

\* C18: generate_sample_data returns exactly count records (none for count
\* 0), each with price, bedrooms, bathrooms, area inside the documented ranges
\* and a property type of the closed vocabulary, and every member of the
\* closed vocabulary is a type the generator can choose.
C18_SampleRecords ==
    SampleReturned =>
        /\ Len(ad_ret.df.rows) = ad_max
        /\ \A i \in DOMAIN ad_ret.df.rows : SampleInRange(ad_ret.df.rows[i])
        /\ Vocabulary \subseteq ChoosableTypes

\* the four price categories
PriceCategories == {Str(sBudget), Str(sMidRange), Str(sHighEnd), Str(sLuxury)}

\* the ladder: below 200,000 Budget, below 500,000 Mid-Range, below
\* 1,000,000 High-End, otherwise Luxury
PriceLadder(p) ==
    IF Lt(p, NumI(200000)) THEN Str(sBudget)
    ELSE IF Lt(p, NumI(500000)) THEN Str(sMidRange)
    ELSE IF Lt(p, NumI(1000000)) THEN Str(sHighEnd)
    ELSE Str(sLuxury)

\* C19: after cleaning every row's price category is one of Budget,
\* Mid-Range, High-End, Luxury and is the one the ladder gives for the row's
\* price; no other category value is produced.
C19_PriceCategory ==
    (cl_pass = 1 /\ cl_pc = "done" /\ HasCol(cl_df, "price_category")) =>
        \A i \in DOMAIN cl_df.rows :
            /\ cl_df.rows[i]["price_category"] \in PriceCategories
            /\ cl_df.rows[i]["price_category"] = PriceLadder(cl_df.rows[i]["price"])

\* a text with every character that is not a digit or a decimal point
\* removed, parsed as a number, and null when outside the bound of column c
ParsedAndBounded(text, c) ==
    IF IsNull(ParseNumber(KeepDigitsDots(text))) THEN Null
    ELSE IF WithinBound(ParseNumber(KeepDigitsDots(text)), c)
      THEN ParseNumber(KeepDigitsDots(text))
    ELSE Null

NumericAndPriceCleaned ==
    cl_pass = 1 /\ cl_pc \in {"strings", "outliers", "derived", "stamp", "done", "raised"}

\* C21: once the numeric fields and the price are cleaned, a bedrooms,
\* bathrooms, area or price given as text has the value of its digits and
\* decimal points parsed as a number, checked against the bound of its field.
C21_TextParsed ==
    NumericAndPriceCleaned =>
        \A i \in DOMAIN cl_in.rows :
            \A c \in {"bedrooms", "bathrooms", "square_feet", "price"} :
                IsStr(cl_in.rows[i][c]) =>
                    cl_df.rows[i][c] = ParsedAndBounded(cl_in.rows[i][c].cs, c)

\* how many of the four inputs of the value score a row has
InputsPresent(df, r) ==
    Cardinality({c \in Range(value_columns) : HasCol(df, c) /\ ~IsNull(r[c])})

HasValueScore(df, r) == HasCol(df, "value_score") /\ ~IsNull(r["value_score"])

\* C22: in a cleaned batch a row has a value score exactly when at least
\* three of its four inputs (price per area, area, bedrooms, bathrooms) are
\* present.
C22_ScoreNeedsThreeInputs ==
    (cl_pass = 1 /\ cl_pc = "done") =>
        \A i \in DOMAIN cl_df.rows :
            HasValueScore(cl_df, cl_df.rows[i]) <=>
                InputsPresent(cl_df, cl_df.rows[i]) >= MinValueColumns

\* C23: in a cleaned batch every value score a row has is a whole number
\* from 0 to 100.
C23_ScoreRange ==
    (cl_pass = 1 /\ cl_pc = "done") =>
        \A i \in DOMAIN cl_df.rows :
            HasValueScore(cl_df, cl_df.rows[i]) =>
                /\ cl_df.rows[i]["value_score"].d = 1
                /\ cl_df.rows[i]["value_score"].n >= 0
                /\ cl_df.rows[i]["value_score"].n <= 100

\* a cleaned batch of rows with different inputs in which one row is scored
\* 48, another 45 and a third, without bathrooms, has no score
C23_Witness ==
    /\ cl_pass = 1 /\ cl_pc = "done" /\ Len(cl_df.rows) >= ScoreBatchRows
    /\ HasCol(cl_df, "value_score")
    /\ \E i \in DOMAIN cl_df.rows : cl_df.rows[i]["value_score"] = NumI(48)
    /\ \E i \in DOMAIN cl_df.rows : cl_df.rows[i]["value_score"] = NumI(45)
    /\ \E i \in DOMAIN cl_df.rows : IsNull(cl_df.rows[i]["value_score"])

\* the rows of the cleaned batch in the city of row r that have a price per
\* area, and the median of their prices per area
CityPrices(df, r) ==
    SelectSeq([j \in DOMAIN df.rows |->
                  IF df.rows[j]["city"] = r["city"] THEN df.rows[j]["price_per_sqft"] ELSE Null],
              IsNum)

\* a row has a ratio when it has a price per area and its city a positive
\* median price per area
HasRatio(df, r) ==
    /\ HasCol(df, "price_per_sqft") /\ IsNum(r["price_per_sqft"])
    /\ ~IsNull(r["city"])
    /\ Gt(Median(CityPrices(df, r)), NumI(0))

\* ratio = city_median / row_price_per_area * 100
Ratio(df, r) == RMul(RDiv(Median(CityPrices(df, r)), r["price_per_sqft"]), NumI(100))

\* the rating fits the ratio: above 120 Excellent, below 80 Poor, and Good,
\* Average, Below Average only inside 105..120, 95..105 and 80..95
RatingFits(rating, ratio) ==
    /\ rating \in {Str(sExcellent), Str(sGood), Str(sAverage), Str(sBelowAverage), Str(sPoor)}
    /\ rating = Str(sExcellent) <=> RLt(NumI(120), ratio)
    /\ rating = Str(sPoor) <=> RLt(ratio, NumI(80))
    /\ rating = Str(sGood) => RLe(NumI(105), ratio) /\ RLe(ratio, NumI(120))
    /\ rating = Str(sAverage) => RLe(NumI(95), ratio) /\ RLe(ratio, NumI(105))
    /\ rating = Str(sBelowAverage) => RLe(NumI(80), ratio) /\ RLe(ratio, NumI(95))

\* C24: in a cleaned batch with price, area and city columns every row with
\* a ratio is rated by the range its ratio lies in, and every row without a
\* ratio is rated Unknown.
C24_RatingBuckets ==
    (cl_pass = 1 /\ cl_pc = "done") =>
        \A i \in DOMAIN cl_df.rows :
            IF HasRatio(cl_df, cl_df.rows[i])
              THEN /\ HasCol(cl_df, "investment_rating")
                   /\ RatingFits(cl_df.rows[i]["investment_rating"], Ratio(cl_df, cl_df.rows[i]))
            ELSE /\ HasCol(cl_df, "investment_rating")
                 /\ cl_df.rows[i]["investment_rating"] = Str(sUnknown)

\* the fence of column c of a frame: Q1 - 1.5 IQR and Q3 + 1.5 IQR with the
\* 5th and 95th percentiles of the values the column has
LowerFence(df, c) ==
    RSub(Quantile(NonNull(df, c), Num(5, 100)),
         RMul(Num(3, 2), RSub(Quantile(NonNull(df, c), Num(95, 100)),
                              Quantile(NonNull(df, c), Num(5, 100)))))

UpperFence(df, c) ==
    RAdd(Quantile(NonNull(df, c), Num(95, 100)),
         RMul(Num(3, 2), RSub(Quantile(NonNull(df, c), Num(95, 100)),
                              Quantile(NonNull(df, c), Num(5, 100)))))

OutsideFence(df, c, v) ==
    IsNum(v) /\ (RLt(v, LowerFence(df, c)) \/ RLt(UpperFence(df, c), v))

\* the flags of column flag are those of the fence of column c
FlagsByFence(df, c, flag) ==
    HasCol(df, flag) =>
        /\ Len(df.rows) > OutlierMinRows
        /\ \A i \in DOMAIN df.rows :
               df.rows[i][flag] = Bool(OutsideFence(df, c, df.rows[i][c]))

\* C25: when handle_outliers has run, a flag column exists only in a batch
\* of more than 10 rows, the price flags and the area flags are each those of
\* the fence of their own column of bounded values (so a row inside the fence
\* or without a value is not flagged), and cleaning the cleaned batch again
\* yields the same flags.
C25_OutlierFlags ==
    /\ (cl_pc = "derived" /\ cl_pass = 1) =>
           /\ FlagsByFence(cl_df, "price", "price_outlier")
           /\ FlagsByFence(cl_df, "square_feet", "sqft_outlier")
    /\ (cl_pc = "derived" /\ cl_pass = 2) =>
           \A flag \in {"price_outlier", "sqft_outlier"} :
               /\ HasCol(cl_df, flag) <=> HasCol(cl_in, flag)
               /\ HasCol(cl_df, flag) => Column(cl_df, flag) = Column(cl_in, flag)

\* a long batch cleaned a second time in which the first row is flagged for
\* price and area, the second row has neither value and is not flagged, and
\* the third row is inside both fences
C25_Witness ==
    /\ cl_pc = "derived" /\ cl_pass = 2
    /\ Len(cl_df.rows) > OutlierMinRows
    /\ cl_df.rows[1]["price_outlier"] = Bool(TRUE)
    /\ cl_df.rows[1]["sqft_outlier"] = Bool(TRUE)
    /\ IsNull(cl_df.rows[2]["price"]) /\ IsNull(cl_df.rows[2]["square_feet"])
    /\ cl_df.rows[2]["price_outlier"] = Bool(FALSE)
    /\ cl_df.rows[2]["sqft_outlier"] = Bool(FALSE)
    /\ cl_df.rows[3]["price_outlier"] = Bool(FALSE)
    /\ cl_df.rows[3]["sqft_outlier"] = Bool(FALSE)

\* the keys the ROI display reads from the result (app.py lines 715-735)
DisplayKeys ==
    {"rental_yield", "monthly_cash_flow", "annual_rental_income", "roi_5yr",
     "five_year_value", "appreciation_rate", "investment_recommendation"}

\* the result of the same call on the same listing without its price
UnpricedTwin ==
    calculate_roi_metrics([roi_args EXCEPT !.property_data["price"] = Null])

\* C26: the dictionary calculate_roi_metrics returns has the keys of the
\* dictionary it returns for the same listing without a price, and among them
\* every key the ROI display reads.
C26_SameKeys ==
    (roi_pc = "done" /\ roi_out.kind = "dict") =>
        /\ DOMAIN roi_out.d = DOMAIN UnpricedTwin.d
        /\ DisplayKeys \subseteq DOMAIN roi_out.d

\* C27: after type standardization a row whose property type was already a
\* word of the closed vocabulary still has that word.
C27_CanonicalFixed ==
    (cl_pass = 1 /\ cl_pc = "numeric") =>
        \A i \in DOMAIN cl_in.rows :
            (IsStr(cl_in.rows[i]["property_type"])
             /\ cl_in.rows[i]["property_type"].cs \in Vocabulary) =>
                cl_df.rows[i]["property_type"] = cl_in.rows[i]["property_type"]

\* the row has a price per area equal to the median of its city's
HoldsCityMedian(df, r) ==
    HasRatio(df, r) /\ r["price_per_sqft"] = Median(CityPrices(df, r))

\* C28: in a cleaned batch a row whose price per area is the median of its
\* city, as that of the only row of a city is, has ratio 100 and the
\* investment rating Average.
C28_MedianRowAverage ==
    (cl_pass = 1 /\ cl_pc = "done") =>
        \A i \in DOMAIN cl_df.rows :
            HoldsCityMedian(cl_df, cl_df.rows[i]) =>
                /\ HasCol(cl_df, "investment_rating")
                /\ cl_df.rows[i]["price_vs_median"] = NumI(100)
                /\ cl_df.rows[i]["investment_rating"] = Str(sAverage)

\* a cleaned batch of several rows in which one row is alone in its city
\* and rated Average with ratio 100, next to a row without a city
C28_Witness ==
    /\ cl_pass = 1 /\ cl_pc = "done" /\ Len(cl_df.rows) >= 2
    /\ \E i \in DOMAIN cl_df.rows :
          /\ HoldsCityMedian(cl_df, cl_df.rows[i])
          /\ Len(CityPrices(cl_df, cl_df.rows[i])) = 1
          /\ cl_df.rows[i]["price_vs_median"] = NumI(100)
          /\ cl_df.rows[i]["investment_rating"] = Str(sAverage)
    /\ \E j \in DOMAIN cl_df.rows :
          IsNull(cl_df.rows[j]["city"]) /\ IsNum(cl_df.rows[j]["price_per_sqft"])

\* the comparison list holds no property twice
NoDuplicates(list) == \A i, j \in DOMAIN list : list[i] = list[j] => i = j

\* the properties of list that the sequence kept holds, in the order of list
Kept(list, kept) == SelectSeq(list, LAMBDA comp : \E i \in DOMAIN kept : kept[i] = comp)

\* C29: the comparison list never holds more than 5 properties nor one
\* property twice; drawing the card of an unchecked property removes that
\* property from the list and nothing else, and when the run started by
\* unchecking a box is over, the property is gone and the others that were
\* in the list are still there in their order.
C29_CompareList ==
    /\ [](/\ Len(compare_properties) <= CompareLimit
          /\ NoDuplicates(compare_properties)
          /\ (cmp_pc = 0 /\ cmp_off # 0) =>
                 /\ \A i \in DOMAIN compare_properties : compare_properties[i] # cmp_off
                 /\ Kept(compare_properties, cmp_before) =
                        RemoveFromCompare(cmp_before, cmp_off))
    /\ [][(cmp_pc \in DOMAIN Cards /\ Cards[cmp_pc] \notin cmp_checked) =>
              compare_properties' =
                  SelectSeq(compare_properties, LAMBDA comp : comp # Cards[cmp_pc])]_vars

\* five properties are compared, a sixth box is checked, and the user has
\* just unchecked one of the five: it left the list, the sixth entered it
C29_Witness ==
    /\ cmp_pc = 0 /\ cmp_off # 0
    /\ Len(cmp_before) = CompareLimit
    /\ \E i \in DOMAIN cmp_before : cmp_before[i] = cmp_off
    /\ Len(compare_properties) = CompareLimit
    /\ Cardinality(cmp_checked) = CompareLimit

\* C30: geocode_address looks an address up at most once: an address is in
\* the cache exactly when it was looked up, a call returns what the cache
\* holds for its address, a call for a cached address makes no lookup, and a
\* cache entry is never changed or removed.
C30_GeocodeOnce ==
    /\ [](/\ \A a \in Addresses : LookupsOf(a) <= 1
          /\ \A a \in Addresses : (a \in DOMAIN geocode_cache) <=> (LookupsOf(a) = 1)
          /\ geo_ret.kind = "returned" =>
                 /\ geo_ret.address \in DOMAIN geocode_cache
                 /\ geo_ret.value = geocode_cache[geo_ret.address])
    /\ [][/\ \A a \in DOMAIN geocode_cache :
                 /\ a \in DOMAIN geocode_cache'
                 /\ geocode_cache'[a] = geocode_cache[a]
                 /\ LookupsOf(a)' = LookupsOf(a)]_vars

\* every address was looked up once, one lookup timed out or failed and
\* another found coordinates, and the last call returned the stored failure
C30_Witness ==
    /\ DOMAIN geocode_cache = Addresses
    /\ \A a \in Addresses : LookupsOf(a) = 1
    /\ \E a \in Addresses : geocode_cache[a] = NoCoords
    /\ \E a \in Addresses : geocode_cache[a] = Coords(47, 122)
    /\ geo_ret.kind = "returned" /\ geo_ret.value = NoCoords

====
